---- MODULE Spec2Model ----
(***************************************************************************)
(* A model of the EasyStats box-score ingestion and aggregation engine     *)
(* (src/easystats-parse.py, with src/fix-player-numbers.py).               *)
(*                                                                         *)
(* Text is a sequence of one-character strings, so that the parsers are    *)
(* modelled by what they do to the characters.  A JSON value that may be   *)
(* null, a number or a [made, attempted] list is a record [k, a, b] with   *)
(* k in {"none", "int", "pair"}.  Percentages and averages, which the      *)
(* code rounds to one decimal, are integers counting tenths.               *)
(***************************************************************************)
EXTENDS Integers, Sequences, FiniteSets, TLC

(***************************************************************************)
(* Characters and strings                                                  *)
(***************************************************************************)
Digits == <<"0", "1", "2", "3", "4", "5", "6", "7", "8", "9">>

UpperCase == <<"A", "B", "C", "D", "E", "F", "G", "H", "I", "J", "K", "L", "M",
               "N", "O", "P", "Q", "R", "S", "T", "U", "V", "W", "X", "Y", "Z">>

LowerCase == <<"a", "b", "c", "d", "e", "f", "g", "h", "i", "j", "k", "l", "m",
               "n", "o", "p", "q", "r", "s", "t", "u", "v", "w", "x", "y", "z">>

Range(s) == {s[i] : i \in DOMAIN s}

IsDigit(c) == c \in Range(Digits)

IsSpace(c) == c \in {" ", "\t"}

IsUpper(c) == c \in Range(UpperCase)

IsLowerAlnum(c) == c \in Range(LowerCase) \/ IsDigit(c)

DigitVal(c) == (CHOOSE i \in DOMAIN Digits : Digits[i] = c) - 1

\* str.lower() on one character
LowerChar(c) ==
    IF IsUpper(c) THEN LowerCase[CHOOSE i \in DOMAIN UpperCase : UpperCase[i] = c]
    ELSE c

\* str.upper() on one character
UpperChar(c) ==
    IF c \in Range(LowerCase)
    THEN UpperCase[CHOOSE i \in DOMAIN LowerCase : LowerCase[i] = c]
    ELSE c

\* str.lower()
Lower(s) == [i \in DOMAIN s |-> LowerChar(s[i])]

\* s[i..j] (1-based, inclusive), empty when j < i
Slice(s, i, j) == SubSeq(s, i, j)

\* str.strip(): leading and trailing whitespace removed
Strip(s) ==
    LET idx == {i \in DOMAIN s : ~IsSpace(s[i])}
    IN  IF idx = {} THEN <<>>
        ELSE LET lo == CHOOSE i \in idx : \A j \in idx : i <= j
                 hi == CHOOSE i \in idx : \A j \in idx : i >= j
             IN  Slice(s, lo, hi)

\* whether sub occurs in s at position i
OccursAt(sub, s, i) ==
    /\ i >= 1
    /\ i + Len(sub) - 1 <= Len(s)
    /\ \A k \in 1..Len(sub) : s[i + k - 1] = sub[k]

\* the Python test `sub in s`
Contains(s, sub) == \E i \in 1..(Len(s) + 1) : OccursAt(sub, s, i)

\* all characters digits, at least one
AllDigits(s) == Len(s) > 0 /\ \A i \in DOMAIN s : IsDigit(s[i])

RECURSIVE DigitsToInt(_)
DigitsToInt(s) ==
    IF s = <<>> THEN 0
    ELSE 10 * DigitsToInt(Slice(s, 1, Len(s) - 1)) + DigitVal(s[Len(s)])

\* int(s) succeeds: surrounding whitespace is ignored, the rest is digits
IntOk(s) == AllDigits(Strip(s))

\* int(s), where IntOk(s)
ToInt(s) == DigitsToInt(Strip(s))

RECURSIVE IntToDigits(_)
\* str(n) for n >= 0
IntToDigits(n) ==
    IF n < 10 THEN <<Digits[n + 1]>>
    ELSE IntToDigits(n \div 10) \o <<Digits[(n % 10) + 1]>>

\* n written with at least w digits, zero-padded (strftime's %Y, %m, %d)
Pad(n, w) ==
    LET d == IntToDigits(n)
    IN  [i \in 1..(IF Len(d) < w THEN w - Len(d) ELSE 0) |-> "0"] \o d

RECURSIVE SplitOn(_, _)
\* str.split(c) for a one-character separator
SplitOn(s, c) ==
    LET idx == {i \in DOMAIN s : s[i] = c}
    IN  IF idx = {} THEN <<s>>
        ELSE LET p == CHOOSE i \in idx : \A j \in idx : i <= j
             IN  <<Slice(s, 1, p - 1)>> \o SplitOn(Slice(s, p + 1, Len(s)), c)

\* str.split() pieces between whitespace runs, none empty
Words(s) == SelectSeq(SplitOn(s, " "), LAMBDA p : p # <<>>)

\* the first position at which sub occurs in s, 0 when it does not
IndexOf(sub, s) ==
    LET idx == {i \in 1..(Len(s) + 1) : OccursAt(sub, s, i)}
    IN  IF idx = {} THEN 0 ELSE CHOOSE i \in idx : \A j \in idx : i <= j

RECURSIVE SpaceRunEnd(_, _)
\* the last position of the whitespace run that starts at i (i - 1 when none)
SpaceRunEnd(s, i) ==
    IF i <= Len(s) /\ IsSpace(s[i]) THEN SpaceRunEnd(s, i + 1) ELSE i - 1

RECURSIVE DigitRunEnd(_, _)
\* the last position of the digit run that starts at i (i - 1 when none)
DigitRunEnd(s, i) ==
    IF i <= Len(s) /\ IsDigit(s[i]) THEN DigitRunEnd(s, i + 1) ELSE i - 1

(***************************************************************************)
(* JSON values                                                             *)
(***************************************************************************)
NoneV == [k |-> "none", a |-> 0, b |-> 0]

IntV(n) == [k |-> "int", a |-> n, b |-> 0]

PairV(m, n) == [k |-> "pair", a |-> m, b |-> n]

\* an exception raised while the value was computed
ErrorV == [k |-> "error", a |-> 0, b |-> 0]

\* Python truthiness of a value: None and 0 are false, a list of two is true
Truthy(v) == v.k = "pair" \/ (v.k = "int" /\ v.a # 0)

(***************************************************************************)
(* The parsers of one field                                                *)
(***************************************************************************)
\* '-' alone or nothing is absent; with a '-' inside, both sides go to int()
\* outside any try; otherwise int() inside try/except
parse_stat_value(stat_str) ==
    IF stat_str = <<>> \/ stat_str = <<"-">> THEN NoneV
    ELSE IF "-" \in Range(stat_str)
    THEN LET parts == SplitOn(stat_str, "-")
         IN  IF IntOk(parts[1]) /\ IntOk(parts[2])
             THEN PairV(ToInt(parts[1]), ToInt(parts[2]))
             ELSE ErrorV
    ELSE IF IntOk(stat_str) THEN IntV(ToInt(stat_str))
    ELSE NoneV

\* re.match(r'#(\d+)\s+(.+)', name_str.strip()): [ok, number, name]
extract_player_number(name_str) ==
    LET s == Strip(name_str)
        d == DigitRunEnd(s, 2)
        w == SpaceRunEnd(s, d + 1)
    IN  IF Len(s) >= 1 /\ s[1] = "#" /\ d >= 2 /\ w >= d + 1 /\ w < Len(s)
        THEN [ok |-> TRUE, number |-> Slice(s, 2, d), name |-> Slice(s, w + 1, Len(s))]
        ELSE [ok |-> FALSE, number |-> <<>>, name |-> s]

\* a variant that does not strip the name
get_player_id_unstripped(name) ==
    LET noDots == SelectSeq(name, LAMBDA c : c # ".")
        clean == Lower(noDots)
    IN  [i \in DOMAIN clean |-> IF clean[i] = " " THEN "-" ELSE clean[i]]

\* name.replace('.', '').strip().lower().replace(' ', '-')
get_player_id(name) ==
    LET noDots == SelectSeq(name, LAMBDA c : c # ".")
        clean == Lower(Strip(noDots))
    IN  [i \in DOMAIN clean |-> IF clean[i] = " " THEN "-" ELSE clean[i]]

MonthAbbr == <<
    <<"j", "a", "n">>, <<"f", "e", "b">>, <<"m", "a", "r">>, <<"a", "p", "r">>,
    <<"m", "a", "y">>, <<"j", "u", "n">>, <<"j", "u", "l">>, <<"a", "u", "g">>,
    <<"s", "e", "p">>, <<"o", "c", "t">>, <<"n", "o", "v">>, <<"d", "e", "c">> >>

IsLeap(y) == (y % 4 = 0 /\ y % 100 # 0) \/ y % 400 = 0

DaysIn(m, y) ==
    IF m = 2 THEN (IF IsLeap(y) THEN 29 ELSE 28)
    ELSE IF m \in {4, 6, 9, 11} THEN 30 ELSE 31

\* datetime.strptime(date_str.strip(), '%d %b %Y'): whether it succeeds
DateOk(date_str) ==
    LET w == Words(date_str)
    IN  /\ Len(w) = 3
        /\ AllDigits(w[1]) /\ Len(w[1]) <= 2
        /\ Lower(w[2]) \in Range(MonthAbbr)
        /\ AllDigits(w[3]) /\ Len(w[3]) = 4
        /\ LET d == DigitsToInt(w[1])
               m == CHOOSE i \in DOMAIN MonthAbbr : MonthAbbr[i] = Lower(w[2])
               y == DigitsToInt(w[3])
           IN  y >= 1 /\ d >= 1 /\ d <= DaysIn(m, y)

\* a variant that always takes the current date
parse_date_today(date_str, now) == now

\* '16 Dec 2025' to '2025-12-16'; on any failure the current date, now
parse_date(date_str, now) ==
    IF DateOk(date_str)
    THEN LET w == Words(date_str)
             m == CHOOSE i \in DOMAIN MonthAbbr : MonthAbbr[i] = Lower(w[2])
         IN  Pad(DigitsToInt(w[3]), 4) \o <<"-">> \o Pad(m, 2) \o <<"-">>
                 \o Pad(DigitsToInt(w[1]), 2)
    ELSE now

BoxScoresSuffix == <<"-", "b", "o", "x", "-", "s", "c", "o", "r", "e", "s">>

\* re.sub(r'-box-scores.*$', '', title)
StripBoxScores(title) ==
    LET i == IndexOf(BoxScoresSuffix, title)
    IN  IF i = 0 THEN title ELSE Slice(title, 1, i - 1)

\* r'(.+?)\s+(\d+)\s+at' matches with the first group ending at a: the
\* whitespace and digit runs are then forced, up to d, the space before "at"
TitleAtStart(t, a) == SpaceRunEnd(t, DigitRunEnd(t, SpaceRunEnd(t, a + 1) + 1) + 1)

TitlePrefix(t, a) ==
    LET b == SpaceRunEnd(t, a + 1)
        c == DigitRunEnd(t, b + 1)
        d == SpaceRunEnd(t, c + 1)
    IN  a >= 1 /\ b >= a + 1 /\ c >= b + 1 /\ d >= c + 1 /\ OccursAt(<<"a", "t">>, t, d + 1)

\* r'\s+(\d+)' matches after a third group ending at f
TitleSuffix(t, f) ==
    LET g == SpaceRunEnd(t, f + 1)
        h == DigitRunEnd(t, g + 1)
    IN  g >= f + 1 /\ h >= g + 1

\* The ways r'(.+?)\s+(\d+)\s+at\s+(.+?)\s+(\d+)' matches a prefix of t: the
\* first group ends at a, the whitespace after "at" ends at e, the third
\* group ends at f; the other boundaries are then forced.
TitleMatches(t) ==
    UNION { UNION { { <<a, e, f>> : f \in {f \in (e + 1)..Len(t) : TitleSuffix(t, f)} } :
                    e \in (TitleAtStart(t, a) + 3)..SpaceRunEnd(t, TitleAtStart(t, a) + 3) } :
            a \in {a \in 1..Len(t) : TitlePrefix(t, a)} }

\* the match the regular expression engine finds first: the first and third
\* groups are lazy (shortest first), the whitespace runs greedy
TitleGroups(t) ==
    LET all == TitleMatches(t)
        before(x, y) ==
            \/ x[1] < y[1]
            \/ x[1] = y[1] /\ x[2] > y[2]
            \/ x[1] = y[1] /\ x[2] = y[2] /\ x[3] <= y[3]
    IN  IF all = {} THEN <<>>
        ELSE <<CHOOSE x \in all : \A y \in all : before(x, y)>>

\* 'Team1 Score1 at Team2 Score2' to the four fields, or no match (ok FALSE)
parse_title(title) ==
    LET t == StripBoxScores(title)
        m == TitleGroups(t)
    IN  IF m = <<>>
        THEN [ok |-> FALSE, away_team |-> <<>>, away_score |-> 0,
              home_team |-> <<>>, home_score |-> 0]
        ELSE LET a == m[1][1]
                 e == m[1][2]
                 f == m[1][3]
                 b == SpaceRunEnd(t, a + 1)
                 c == DigitRunEnd(t, b + 1)
                 g == SpaceRunEnd(t, f + 1)
                 h == DigitRunEnd(t, g + 1)
             IN  [ok |-> TRUE,
                  away_team |-> Strip(Slice(t, 1, a)),
                  away_score |-> DigitsToInt(Slice(t, b + 1, c)),
                  home_team |-> Strip(Slice(t, e + 1, f)),
                  home_score |-> DigitsToInt(Slice(t, g + 1, h))]

\* str.title(): a letter is upper-cased after a non-letter, lower-cased
\* after a letter
Title(s) ==
    LET isLetter(c) == IsUpper(c) \/ c \in Range(LowerCase)
    IN  [i \in DOMAIN s |->
            IF i = 1 \/ ~isLetter(s[i - 1]) THEN UpperChar(s[i]) ELSE LowerChar(s[i])]

RECURSIVE Slug(_)
\* re.sub(r'[^a-z0-9]+', '-', s): each run of other characters becomes one '-'
Slug(s) ==
    IF s = <<>> THEN <<>>
    ELSE IF IsLowerAlnum(s[1]) THEN <<s[1]>> \o Slug(Tail(s))
    ELSE LET idx == {i \in DOMAIN s : IsLowerAlnum(s[i])}
         IN  IF idx = {} THEN <<"-">>
             ELSE <<"-">> \o Slug(Slice(s, CHOOSE i \in idx : \A j \in idx : i <= j, Len(s)))

\* str.strip('-')
StripHyphens(s) ==
    LET idx == {i \in DOMAIN s : s[i] # "-"}
    IN  IF idx = {} THEN <<>>
        ELSE Slice(s, CHOOSE i \in idx : \A j \in idx : i <= j,
                      CHOOSE i \in idx : \A j \in idx : i >= j)

\* the storage key of a game: '<date>-<opponent slug>', the file name without
\* its '.json'
GameKey(date, opponent) == date \o <<"-">> \o StripHyphens(Slug(Lower(opponent)))

(***************************************************************************)
(* Rounding to one decimal                                                 *)
(***************************************************************************)
\* n / d rounded to the nearest integer, a tie to the even one (d > 0)
RoundHalfEven(n, d) ==
    LET q == n \div d
        r == n % d
    IN  IF 2 * r < d THEN q
        ELSE IF 2 * r > d THEN q + 1
        ELSE IF q % 2 = 0 THEN q ELSE q + 1

\* a number with one decimal, as a count of tenths
DecV(tenths) == [k |-> "dec", a |-> tenths, b |-> 0]

\* a key the dict does not hold
AbsentV == [k |-> "absent", a |-> 0, b |-> 0]

\* a variant that cuts the digits after the first decimal off
PctTruncated(made, attempted) ==
    IF attempted > 0 THEN DecV((made * 1000) \div attempted) ELSE IntV(0)

\* round(made / attempted * 100, 1) if attempted > 0 else 0
Pct(made, attempted) ==
    IF attempted > 0 THEN DecV(RoundHalfEven(made * 1000, attempted)) ELSE IntV(0)

(***************************************************************************)
(* calculate_derived_stats                                                 *)
(***************************************************************************)
RawFields == {"fg", "3pt", "ft", "oreb", "dreb", "foul", "stl", "to", "blk", "asst", "pts"}

DerivedFields == {"2pt", "2pt_pct", "fg_pct", "3pt_pct", "ft_pct", "reb"}

StatFields == RawFields \cup DerivedFields

\* dict.get(key, default): the default only when the key is absent
Get(stats, key, default) ==
    IF key \in DOMAIN stats /\ stats[key].k # "absent" THEN stats[key] ELSE default

\* `x[1] > 0` guarded by `x and`: a bare non-zero number cannot be indexed
PctOf(x) ==
    IF ~Truthy(x) THEN IntV(0)
    ELSE IF x.k # "pair" THEN ErrorV
    ELSE Pct(x.a, x.b)

\* a variant that takes the attempts for the made 2-pointers and the made
\* shots for the attempts
calculate_derived_stats_swapped(stats) ==
    LET fg == Get(stats, "fg", PairV(0, 0))
        three_pt == Get(stats, "3pt", PairV(0, 0))
        ft == Get(stats, "ft", PairV(0, 0))
        both == Truthy(fg) /\ Truthy(three_pt)
        two == IF ~both THEN AbsentV
               ELSE IF fg.k = "pair" /\ three_pt.k = "pair"
               THEN PairV(fg.b - three_pt.b, fg.a - three_pt.a)
               ELSE ErrorV
        orebRaw == Get(stats, "oreb", IntV(0))
        drebRaw == Get(stats, "dreb", IntV(0))
        oreb == IF Truthy(orebRaw) THEN orebRaw ELSE IntV(0)
        dreb == IF Truthy(drebRaw) THEN drebRaw ELSE IntV(0)
    IN  [f \in DerivedFields |->
            CASE f = "2pt" -> two
              [] f = "2pt_pct" ->
                    IF two.k = "pair" THEN Pct(two.a, two.b) ELSE two
              [] f = "fg_pct" -> PctOf(fg)
              [] f = "3pt_pct" -> PctOf(three_pt)
              [] f = "ft_pct" -> PctOf(ft)
              [] f = "reb" ->
                    IF oreb.k = "int" /\ dreb.k = "int" THEN IntV(oreb.a + dreb.a)
                    ELSE ErrorV]

\* the derived fields of one player's raw stats; a field the code does not
\* set is absent, a field whose computation raises is ErrorV
calculate_derived_stats(stats) ==
    LET fg == Get(stats, "fg", PairV(0, 0))
        three_pt == Get(stats, "3pt", PairV(0, 0))
        ft == Get(stats, "ft", PairV(0, 0))
        both == Truthy(fg) /\ Truthy(three_pt)
        two == IF ~both THEN AbsentV
               ELSE IF fg.k = "pair" /\ three_pt.k = "pair"
               THEN PairV(fg.a - three_pt.a, fg.b - three_pt.b)
               ELSE ErrorV
        orebRaw == Get(stats, "oreb", IntV(0))
        drebRaw == Get(stats, "dreb", IntV(0))
        oreb == IF Truthy(orebRaw) THEN orebRaw ELSE IntV(0)
        dreb == IF Truthy(drebRaw) THEN drebRaw ELSE IntV(0)
    IN  [f \in DerivedFields |->
            CASE f = "2pt" -> two
              [] f = "2pt_pct" ->
                    IF two.k = "pair" THEN Pct(two.a, two.b) ELSE two
              [] f = "fg_pct" -> PctOf(fg)
              [] f = "3pt_pct" -> PctOf(three_pt)
              [] f = "ft_pct" -> PctOf(ft)
              [] f = "reb" ->
                    IF oreb.k = "int" /\ dreb.k = "int" THEN IntV(oreb.a + dreb.a)
                    ELSE ErrorV]

(***************************************************************************)
(* Python dicts.  A dict whose iteration order reaches the output (the     *)
(* registry, a game's stats) is a sequence of [key, val] entries with      *)
(* distinct keys, in insertion order; the others are functions.            *)
(***************************************************************************)
EmptyMap == [x \in {} |-> 0]

\* f itself.  Comparing a function makes the model checker tabulate it, so
\* that applying it later does not evaluate its definition again.
Table(f) == IF f = f THEN f ELSE f

OKeys(od) == {od[i].key : i \in DOMAIN od}

OHas(od, key) == key \in OKeys(od)

OGet(od, key) == od[CHOOSE i \in DOMAIN od : od[i].key = key].val

\* od[key] = val: in place when the key is there, at the end when it is new
OPut(od, key, val) ==
    IF OHas(od, key)
    THEN [i \in DOMAIN od |-> IF od[i].key = key THEN [key |-> key, val |-> val] ELSE od[i]]
    ELSE Append(od, [key |-> key, val |-> val])

(***************************************************************************)
(* The player registry                                                     *)
(***************************************************************************)
\* our_team, the standardized team name added to a player's teams
OurTeam == <<"P", "r", "e", "t", "t", "y", " ", "g", "o", "o", "d">>

\* our_team_variants, matched against the lower-cased team names of a title
OurTeamVariants ==
    { <<"p", "r", "e", "t", "t", "y", " ", "g", "o", "o", "d">>,
      <<"p", "r", "e", "t", "t", "y", "-", "g", "o", "o", "d">> }

PortraitPath(player_id) ==
    <<"A", "s", "s", "e", "t", "s", "/", "p", "l", "a", "y", "e", "r", "s", "/">>
        \o player_id \o <<".", "p", "n", "g">>

\* a new registry entry
NewPlayer(number, name) ==
    [id |-> get_player_id(name), display_name |-> name, name |-> name,
     number |-> number, position |-> <<>>, teams |-> <<>>,
     images |-> [portrait |-> PortraitPath(get_player_id(name))]]

\* the test that lets an incoming name replace the stored one
NameIsMoreComplete(name, existing) == Len(name) > Len(existing.name)

\* a variant that replaces the name and leaves the id of the shorter name
merge_player_data_stale_id(players, number, name) ==
    IF OHas(players, number)
    THEN LET existing == OGet(players, number)
         IN  IF NameIsMoreComplete(name, existing)
             THEN OPut(players, number,
                       [existing EXCEPT !.name = name, !.display_name = name])
             ELSE players
    ELSE OPut(players, number, NewPlayer(number, name))

\* self.players after merge_player_data(number, name)
merge_player_data(players, number, name) ==
    IF OHas(players, number)
    THEN LET existing == OGet(players, number)
         IN  IF NameIsMoreComplete(name, existing)
             THEN OPut(players, number,
                       [existing EXCEPT !.name = name, !.display_name = name,
                                        !.id = get_player_id(name)])
             ELSE players
    ELSE OPut(players, number, NewPlayer(number, name))

\* `if our_team not in teams: teams.append(our_team)` on players[number]
AddTeam(players, number) ==
    LET p == OGet(players, number)
    IN  IF OurTeam \in Range(p.teams) THEN players
        ELSE OPut(players, number, [p EXCEPT !.teams = Append(p.teams, OurTeam)])

(***************************************************************************)
(* One row of the stats table                                              *)
(***************************************************************************)
\* the column (1-based, the label is column 1) of each raw field
ColumnOf ==
    [f \in RawFields |->
        CASE f = "fg" -> 2 [] f = "3pt" -> 4 [] f = "ft" -> 6 [] f = "oreb" -> 8
          [] f = "dreb" -> 9 [] f = "foul" -> 10 [] f = "stl" -> 11 [] f = "to" -> 12
          [] f = "blk" -> 13 [] f = "asst" -> 14 [] f = "pts" -> 15]

\* the number of columns the code indexes (cols[0] to cols[14])
NumColumns == 15

\* all(col.text.strip() == '-' for col in cols[1:])
IsDNP(cols) == \A i \in 2..Len(cols) : Strip(cols[i]) = <<"-">>

\* the stats dict of a row that is not DNP: the parsed raw fields updated
\* with the derived ones.  err: a column is missing (IndexError), a cell or
\* a derived field raises (ValueError, TypeError).
RowStats(cols) ==
    IF Len(cols) < NumColumns THEN [err |-> TRUE, stats |-> EmptyMap]
    ELSE LET raw == [f \in RawFields |-> parse_stat_value(Strip(cols[ColumnOf[f]]))]
             derived == calculate_derived_stats(raw)
             stats == [f \in StatFields |-> IF f \in DerivedFields THEN derived[f] ELSE raw[f]]
         IN  [err |-> \E f \in StatFields : stats[f].k = "error", stats |-> stats]

\* what the loop reads off one row before it touches the registry: the
\* cells found, the label's number and name, the DNP test, the row's stats
ReadRow(cols) ==
    [cells |-> Len(cols),
     who |-> IF Len(cols) < 1 THEN extract_player_number(<<>>)
             ELSE extract_player_number(Strip(cols[1])),
     dnp |-> IsDNP(cols),
     row |-> RowStats(cols)]

RECURSIVE ProcessRows(_, _, _)
\* the loop over the table's rows (as ReadRow gives them), from row i on,
\* given the registry and the stats collected so far: [err, players, stats]
ProcessRows(rows, i, acc) ==
    IF i > Len(rows) THEN acc
    ELSE LET who == rows[i].who
         IN  IF rows[i].cells < 2 \/ ~who.ok THEN ProcessRows(rows, i + 1, acc)
             ELSE LET merged == AddTeam(merge_player_data(acc.players, who.number, who.name),
                                        who.number)
                  IN  IF rows[i].dnp
                      THEN ProcessRows(rows, i + 1, [acc EXCEPT !.players = merged])
                      ELSE IF rows[i].row.err
                      THEN [acc EXCEPT !.err = TRUE, !.players = merged]
                      ELSE ProcessRows(rows, i + 1,
                               [acc EXCEPT !.players = merged,
                                           !.stats = OPut(acc.stats, who.number,
                                                          rows[i].row.stats)])

(***************************************************************************)
(* parse_html: one box score to a game                                     *)
(***************************************************************************)
\* None where the code holds a string
Null == <<"(null)">>

\* the season key and display name: the year of the date unless the forced
\* season starts with four digits; set: the forced season is given (the
\* display name then goes to seasons_meta)
ResolveSeason(date, force_season) ==
    LET given == force_season # <<>>
        fs == Strip(force_season)
        hasYear == Len(fs) >= 4 /\ AllDigits(Slice(fs, 1, 4))
        key == IF given /\ hasYear THEN Slice(fs, 1, 4) ELSE Slice(date, 1, 4)
        suffix == IF hasYear THEN Slice(fs, SpaceRunEnd(fs, 5) + 1, Len(fs)) ELSE <<>>
        display == IF ~given THEN key
                   ELSE IF ~hasYear THEN Title(fs)
                   ELSE IF suffix # <<>> THEN key \o <<" ">> \o Title(Strip(suffix))
                   ELSE key
    IN  [set |-> given, key |-> key, display |-> display]

\* any(variant in team.lower() for variant in our_team_variants)
IsUs(team) == \E v \in OurTeamVariants : Contains(Lower(team), v)

\* a variant that looks at the home side first
IsHomeFirst(info) == IsUs(info.home_team)

\* is_home: we are home only when the away side is not us and the home side is
IsHome(info) == ~IsUs(info.away_team) /\ IsUs(info.home_team)

\* opponent, our_score, their_score of a parsed title, their_score replaced
\* by opp_score when it is given
Sides(info, opp_score) ==
    LET is_home == IsHome(info)
    IN  [is_home |-> is_home,
         opponent |-> IF is_home THEN info.away_team ELSE info.home_team,
         us |-> IF is_home THEN info.home_score ELSE info.away_score,
         them |-> IF opp_score.k # "none" THEN opp_score.a
                  ELSE IF is_home THEN info.away_score ELSE info.home_score]

\* a variant that counts a tie as a win
ResultOfAtLeast(us, them) == IF us >= them THEN "W" ELSE "L"

\* 'W' if our_score > their_score else 'L'
ResultOf(us, them) == IF us > them THEN "W" ELSE "L"

NoGame ==
    [date |-> Null, season |-> Null, opponent |-> Null, homeAway |-> "away",
     score |-> [us |-> 0, them |-> 0], result |-> "L", isPlayoff |-> FALSE, stats |-> <<>>]

\* parse_html on a page (ReadPage of a file) with the flags, the current date
\* and the parser's loaded registry and seasons_meta.  err names the
\* exception's place, "none" when it returns; metaSaved: seasons_meta.json
\* was written before that.
parse_html(page, is_playoff, force_season, opp_score, now, players, seasons_meta) ==
    LET info == page.info
        date == IF page.hasDate THEN page.date[now] ELSE now
        season == ResolveSeason(date, force_season)
        meta == IF season.set
                THEN (season.key :> [key |-> season.key, display_name |-> season.display])
                         @@ seasons_meta
                ELSE seasons_meta
        sides == Sides(info, opp_score)
        rows == ProcessRows(page.rows, 1, [err |-> FALSE, players |-> players, stats |-> <<>>])
        early == [err |-> "none", game |-> NoGame, players |-> players,
                  seasons_meta |-> seasons_meta, metaSaved |-> FALSE]
    IN  IF ~page.hasTitle THEN [early EXCEPT !.err = "MissingTitle"]
        ELSE IF ~info.ok THEN [early EXCEPT !.err = "TitleFormat"]
        ELSE IF ~page.hasTable
        THEN [early EXCEPT !.err = "MissingStatsTable", !.seasons_meta = meta,
                           !.metaSaved = season.set]
        ELSE IF rows.err
        THEN [early EXCEPT !.err = "RowError", !.seasons_meta = meta,
                           !.metaSaved = season.set, !.players = rows.players]
        ELSE [err |-> "none",
              game |-> [date |-> date, season |-> season.key, opponent |-> sides.opponent,
                        homeAway |-> IF sides.is_home THEN "home" ELSE "away",
                        score |-> [us |-> sides.us, them |-> sides.them],
                        result |-> ResultOf(sides.us, sides.them),
                        isPlayoff |-> is_playoff, stats |-> rows.stats],
              players |-> rows.players, seasons_meta |-> meta, metaSaved |-> season.set]

\* an entry that takes every game for a game of the regular season
IndexEntryRegular(key, game) ==
    [filename |-> key \o <<".", "j", "s", "o", "n">>, date |-> game.date,
     season |-> game.season, opponent |-> game.opponent, score |-> game.score,
     result |-> game.result, isPlayoff |-> FALSE]

\* the games_index entry save_game writes for a game
IndexEntry(key, game) ==
    [filename |-> key \o <<".", "j", "s", "o", "n">>, date |-> game.date,
     season |-> game.season, opponent |-> game.opponent, score |-> game.score,
     result |-> game.result, isPlayoff |-> game.isPlayoff]

(***************************************************************************)
(* update_records                                                          *)
(***************************************************************************)
Categories == {"regular", "playoff", "all"}

\* stat_names of update_records
StatNameList ==
    <<"pts", "reb", "asst", "stl", "blk", "to", "fg", "3pt", "ft", "oreb", "dreb", "foul">>

StatNames == Range(StatNameList)

\* the entry every record starts from
EmptyRecord ==
    [player |-> Null, player_number |-> Null, value |-> IntV(0), date |-> Null,
     opponent |-> Null]

\* self.records after the reset loop
ResetRecords == Table([c \in Categories |-> [st \in StatNames |-> EmptyRecord]])

\* 'playoff' if game.get('isPlayoff') else 'regular'
GameType(game) == IF game.isPlayoff THEN "playoff" ELSE "regular"

\* a variant that takes the attempts of a list, not the made shots
RecordValueAttempts(stats, stat) ==
    LET v == Get(stats, stat, NoneV)
    IN  IF v.k = "pair" THEN IntV(v.b) ELSE v

\* stats.get(stat), a list replaced by its first element (the made shots)
RecordValue(stats, stat) ==
    LET v == Get(stats, stat, NoneV)
    IN  IF v.k = "pair" THEN IntV(v.a) ELSE v

\* `if value is None or value == 0: continue`
SkipsRecord(value) == value.k # "int" \/ value.a = 0

\* a variant that lets any other value replace the stored record
DiffersFromRecord(value, stored) == value # stored

\* the comparison that lets a value replace the stored record
BeatsRecord(value, stored) == value > stored

\* self.players.get(player_num, {}).get('name', f"#{player_num}")
PlayerName(players, player_num) ==
    IF OHas(players, player_num) THEN OGet(players, player_num).name
    ELSE <<"#">> \o player_num

\* the records after one stat of one player's stats of one game: the
\* record of the game's type, then the all-time record
RecordsAfterStat(recs, game, player_num, stats, stat, players) ==
    LET value == RecordValue(stats, stat)
        entry == [player |-> PlayerName(players, player_num),
                  player_number |-> player_num, value |-> value,
                  date |-> game.date, opponent |-> game.opponent]
        own == IF BeatsRecord(value.a, recs[GameType(game)][stat].value.a)
               THEN [recs EXCEPT ![GameType(game)][stat] = entry] ELSE recs
    IN  IF SkipsRecord(value) THEN recs
        ELSE IF BeatsRecord(value.a, own["all"][stat].value.a)
        THEN [own EXCEPT !["all"][stat] = entry] ELSE own

RECURSIVE RecordsAfterStats(_, _, _, _, _, _)
\* the loop over stat_names, from the j-th name on
RecordsAfterStats(recs, game, player_num, stats, j, players) ==
    IF j > Len(StatNameList) THEN recs
    ELSE LET next == RecordsAfterStat(recs, game, player_num, stats, StatNameList[j],
                                      players)
         IN  IF next = recs
             THEN RecordsAfterStats(recs, game, player_num, stats, j + 1, players)
             ELSE RecordsAfterStats(next, game, player_num, stats, j + 1, players)

RECURSIVE RecordsAfterPlayers(_, _, _, _)
\* the loop over game['stats'].items(), from entry i on
RecordsAfterPlayers(recs, game, i, players) ==
    IF i > Len(game.stats) THEN recs
    ELSE LET next == RecordsAfterStats(recs, game, game.stats[i].key, game.stats[i].val,
                                       1, players)
         IN  IF next = recs THEN RecordsAfterPlayers(recs, game, i + 1, players)
             ELSE RecordsAfterPlayers(next, game, i + 1, players)

RECURSIVE RecordsAfterGames(_, _, _, _, _)
\* the loop over the game files in the order the directory lists them
RecordsAfterGames(recs, gameFiles, order, i, players) ==
    IF i > Len(order) THEN recs
    ELSE LET next == RecordsAfterPlayers(recs, gameFiles[order[i]], 1, players)
         IN  IF next = recs THEN RecordsAfterGames(recs, gameFiles, order, i + 1, players)
             ELSE RecordsAfterGames(next, gameFiles, order, i + 1, players)

\* records.json after update_records()
update_records(gameFiles, order, players) ==
    RecordsAfterGames(ResetRecords, gameFiles, order, 1, players)

(***************************************************************************)
(* update_season_stats                                                     *)
(***************************************************************************)
CountingStats == {"pts", "reb", "asst", "stl", "blk", "to", "foul", "oreb", "dreb"}

ShootingStats == {"fg", "2pt", "3pt", "ft"}

\* the per-game averages of the counting stats
AverageOf ==
    [f \in {"ppg", "rpg", "apg", "spg", "bpg", "tpg", "fpg", "orebpg", "drebpg"} |->
        CASE f = "ppg" -> "pts" [] f = "rpg" -> "reb" [] f = "apg" -> "asst"
          [] f = "spg" -> "stl" [] f = "bpg" -> "blk" [] f = "tpg" -> "to"
          [] f = "fpg" -> "foul" [] f = "orebpg" -> "oreb" [] f = "drebpg" -> "dreb"]

\* the per-game attempts and makes of the shooting stats: [stat, component]
PerGameOf ==
    [f \in {"fga_pg", "3pa_pg", "fta_pg", "2pa_pg", "fgm_pg", "3pm_pg", "ftm_pg", "2pm_pg"} |->
        CASE f = "fga_pg" -> <<"fg", "b">> [] f = "3pa_pg" -> <<"3pt", "b">>
          [] f = "fta_pg" -> <<"ft", "b">> [] f = "2pa_pg" -> <<"2pt", "b">>
          [] f = "fgm_pg" -> <<"fg", "a">> [] f = "3pm_pg" -> <<"3pt", "a">>
          [] f = "ftm_pg" -> <<"ft", "a">> [] f = "2pm_pg" -> <<"2pt", "a">>]

\* the season percentages
PercentOf ==
    [f \in {"fg_pct", "2pt_pct", "3pt_pct", "ft_pct"} |->
        CASE f = "fg_pct" -> "fg" [] f = "2pt_pct" -> "2pt"
          [] f = "3pt_pct" -> "3pt" [] f = "ft_pct" -> "ft"]

AggFields ==
    {"gp"} \cup CountingStats \cup ShootingStats
        \cup DOMAIN AverageOf \cup DOMAIN PerGameOf \cup DOMAIN PercentOf

\* the aggregate a player starts from in a season and category
ZeroAggregate ==
    [f \in AggFields |->
        IF f = "gp" \/ f \in CountingStats THEN IntV(0)
        ELSE IF f \in ShootingStats THEN PairV(0, 0)
        ELSE AbsentV]

\* a variant that leaves the attempts of the shooting stats out
AddStatsMadeOnly(agg, stats) ==
    [f \in AggFields |->
        IF f = "gp" THEN IntV(agg[f].a + 1)
        ELSE IF f \in CountingStats
        THEN LET v == Get(stats, f, IntV(0))
             IN  IF Truthy(v) THEN IntV(agg[f].a + v.a) ELSE agg[f]
        ELSE IF f \in ShootingStats
        THEN LET v == Get(stats, f, NoneV)
             IN  IF v.k = "pair" THEN PairV(agg[f].a + v.a, agg[f].b) ELSE agg[f]
        ELSE agg[f]]

\* the aggregate after one game's stats are added: gp += 1, a counting stat
\* added when truthy, a shooting stat added when it is a list
AddStats(agg, stats) ==
    [f \in AggFields |->
        IF f = "gp" THEN IntV(agg[f].a + 1)
        ELSE IF f \in CountingStats
        THEN LET v == Get(stats, f, IntV(0))
             IN  IF Truthy(v) THEN IntV(agg[f].a + v.a) ELSE agg[f]
        ELSE IF f \in ShootingStats
        THEN LET v == Get(stats, f, NoneV)
             IN  IF v.k = "pair" THEN PairV(agg[f].a + v.a, agg[f].b + v.b) ELSE agg[f]
        ELSE agg[f]]

\* a variant that does not divide by the games played
PerGameUndivided(total, gp) == DecV(total * 10)

\* round(total / gp, 1)
PerGame(total, gp) == DecV(RoundHalfEven(total * 10, gp))

\* the averages and percentages, set when gp > 0
WithAverages(agg) ==
    LET gp == agg["gp"].a
    IN  IF gp <= 0 THEN agg
        ELSE [f \in AggFields |->
                 IF f \in DOMAIN AverageOf THEN PerGame(agg[AverageOf[f]].a, gp)
                 ELSE IF f \in DOMAIN PerGameOf
                 THEN LET n == agg[PerGameOf[f][1]][PerGameOf[f][2]]
                      IN  IF n > 0 THEN PerGame(n, gp) ELSE IntV(0)
                 ELSE IF f \in DOMAIN PercentOf
                 THEN Pct(agg[PercentOf[f]].a, agg[PercentOf[f]].b)
                 ELSE agg[f]]

\* the dict seasons starts from
NoSeasons == EmptyMap

\* game.get('season', game['date'][:4])
SeasonKeyOf(game) == game.season

\* a variant that adds the stats to the category of the game only
SeasonAfterPlayerOfType(season, game, player_num, stats) ==
    Table([c \in Categories |->
        LET have == IF player_num \in DOMAIN season[c] THEN season[c][player_num]
                    ELSE ZeroAggregate
            now == IF c = GameType(game) THEN AddStats(have, stats) ELSE have
        IN  (player_num :> now) @@ season[c]])

\* a season's three categories after one player's stats of one game
SeasonAfterPlayer(season, game, player_num, stats) ==
    Table([c \in Categories |->
        LET have == IF player_num \in DOMAIN season[c] THEN season[c][player_num]
                    ELSE ZeroAggregate
            now == IF c \in {GameType(game), "all"} THEN AddStats(have, stats) ELSE have
        IN  (player_num :> now) @@ season[c]])

RECURSIVE SeasonAfterPlayers(_, _, _)
SeasonAfterPlayers(season, game, i) ==
    IF i > Len(game.stats) THEN season
    ELSE SeasonAfterPlayers(
             SeasonAfterPlayer(season, game, game.stats[i].key, game.stats[i].val),
             game, i + 1)

RECURSIVE SeasonsAfterGames(_, _, _, _)
\* the loop over the game files: the season's entry is made when its first
\* game is met, then every player of the game is added
SeasonsAfterGames(seasons, gameFiles, order, i) ==
    IF i > Len(order) THEN seasons
    ELSE LET game == gameFiles[order[i]]
             key == SeasonKeyOf(game)
             season == IF key \in DOMAIN seasons THEN seasons[key]
                       ELSE [c \in Categories |-> EmptyMap]
         IN  SeasonsAfterGames((key :> SeasonAfterPlayers(season, game, 1)) @@ seasons,
                               gameFiles, order, i + 1)

\* the seasons dict the second loop leaves, every aggregate with its averages
ComputeSeasons(gameFiles, order) ==
    LET folded == SeasonsAfterGames(NoSeasons, gameFiles, order, 1)
    IN  Table([key \in DOMAIN folded |->
                  [c \in Categories |->
                      [n \in DOMAIN folded[key][c] |-> WithAverages(folded[key][c][n])]]])

\* the season keys of the games: the seasons update_season_stats writes
SeasonKeys(gameFiles) == {SeasonKeyOf(gameFiles[k]) : k \in DOMAIN gameFiles}

RECURSIVE SeasonOrder(_, _, _, _)
\* seasons.items(): the season keys in the order the loop over the game
\* files first meets them
SeasonOrder(gameFiles, order, i, acc) ==
    IF i > Len(order) THEN acc
    ELSE LET key == SeasonKeyOf(gameFiles[order[i]])
         IN  SeasonOrder(gameFiles, order, i + 1,
                         IF key \in Range(acc) THEN acc ELSE Append(acc, key))

\* a variant that adds the games to the stored seasons instead of starting
\* from none
update_season_stats_patching(seasonFiles, gameFiles, order) ==
    LET folded == SeasonsAfterGames(seasonFiles, gameFiles, order, 1)
    IN  Table([key \in DOMAIN folded |->
                  [c \in Categories |->
                      [n \in DOMAIN folded[key][c] |-> WithAverages(folded[key][c][n])]]])

\* the season files after update_season_stats(): one file written per season
\* of the computed dict, the other files left as they are
update_season_stats(seasonFiles, gameFiles, order) ==
    LET computed == ComputeSeasons(gameFiles, order)
    IN  [key \in DOMAIN seasonFiles \cup DOMAIN computed |->
            IF key \in DOMAIN computed THEN computed[key] ELSE seasonFiles[key]]

(***************************************************************************)
(* The box scores the model ingests.  A counting column never holds two   *)
(* numbers joined by '-' and a made-attempted column never a bare number. *)
(***************************************************************************)
\* the example row of the specification: 13 points
RowSmith ==
    << <<"#", "7", " ", "J", ".", " ", "S", "m", "i", "t", "h">>,
       <<"4", "-", "1", "0">>, <<"4", "0", ".", "0">>, <<"2", "-", "5">>,
       <<"4", "0", ".", "0">>, <<"3", "-", "4">>, <<"7", "5", ".", "0">>, <<"1">>,
       <<"2">>, <<"3">>, <<"0">>, <<"1">>, <<"0">>, <<"4">>, <<"1", "3">> >>

\* the same player with the same points, rebounds and made shots in another game
RowSmithTie ==
    << <<"#", "7", " ", "J", ".", " ", "S", "m", "i", "t", "h">>,
       <<"4", "-", "9">>, <<"4", "4", ".", "4">>, <<"2", "-", "4">>,
       <<"5", "0", ".", "0">>, <<"3", "-", "3">>, <<"1", "0", "0", ".", "0">>, <<"2">>,
       <<"1">>, <<"1">>, <<"1">>, <<"0">>, <<"0">>, <<"2">>, <<"1", "3">> >>

\* the same player with fewer of everything
RowSmithLow ==
    << <<"#", "7", " ", "J", ".", " ", "S", "m", "i", "t", "h">>,
       <<"1", "-", "4">>, <<"2", "5", ".", "0">>, <<"0", "-", "1">>, <<"0", ".", "0">>,
       <<"1", "-", "2">>, <<"5", "0", ".", "0">>, <<"0">>, <<"1">>, <<"1">>, <<"0">>,
       <<"1">>, <<"0">>, <<"1">>, <<"3">> >>

\* a second player, 13 points too, with absent cells
RowAlan ==
    << <<"#", "3", " ", "A", "l", "a", "n">>,
       <<"5", "-", "8">>, <<"6", "2", ".", "5">>, <<"-">>, <<"-">>, <<"3", "-", "6">>,
       <<"5", "0", ".", "0">>, <<"-">>, <<"3">>, <<"2">>, <<"-">>, <<"0">>, <<"1">>,
       <<"1">>, <<"1", "3">> >>

\* the second player under a shorter name, did not play
RowAlDNP ==
    << <<"#", "3", " ", "A", "l">>,
       <<"-">>, <<"-">>, <<"-">>, <<"-">>, <<"-">>, <<"-">>, <<"-">>, <<"-">>, <<"-">>,
       <<"-">>, <<"-">>, <<"-">>, <<"-">>, <<"-">> >>

\* a row whose label has no number
RowNoNumber ==
    << <<"T", "e", "a", "m">>,
       <<"9", "-", "1", "8">>, <<"5", "0", ".", "0">>, <<"2", "-", "5">>,
       <<"4", "0", ".", "0">>, <<"6", "-", "1", "0">>, <<"6", "0", ".", "0">>, <<"3">>,
       <<"6">>, <<"6">>, <<"1">>, <<"1">>, <<"1">>, <<"5">>, <<"2", "6">> >>

\* a row with a malformed made-attempted cell
RowMalformed ==
    << <<"#", "7", " ", "J", ".", " ", "S", "m", "i", "t", "h">>,
       <<"x", "-", "3">>, <<"0", ".", "0">>, <<"2", "-", "5">>, <<"4", "0", ".", "0">>,
       <<"3", "-", "4">>, <<"7", "5", ".", "0">>, <<"1">>, <<"2">>, <<"3">>, <<"0">>,
       <<"1">>, <<"0">>, <<"4">>, <<"1", "3">> >>

\* a row with a cell that is no number and holds no '-'
RowNoise ==
    << <<"#", "7", " ", "J", ".", " ", "S", "m", "i", "t", "h">>,
       <<"4", "-", "1", "0">>, <<"4", "0", ".", "0">>, <<"2", "-", "5">>,
       <<"4", "0", ".", "0">>, <<"3", "-", "4">>, <<"7", "5", ".", "0">>, <<"1">>,
       <<"2">>, <<"3">>, <<"0">>, <<"x">>, <<"0">>, <<"4">>, <<"1", "3">> >>

\* a row whose 3-point misses exceed its field-goal misses
RowOdd ==
    << <<"#", "7", " ", "J", ".", " ", "S", "m", "i", "t", "h">>,
       <<"2", "-", "3">>, <<"6", "6", ".", "7">>, <<"0", "-", "2">>, <<"0", ".", "0">>,
       <<"1", "-", "1">>, <<"1", "0", "0", ".", "0">>, <<"0">>, <<"1">>, <<"1">>, <<"0">>,
       <<"1">>, <<"0">>, <<"1">>, <<"5">> >>

\* a home win against Rivals
FileRivals ==
    [hasTitle |-> TRUE, title |-> <<"R", "i", "v", "a", "l", "s", " ", "4", "0", " ", "a", "t", " ", "P", "r", "e", "t", "t", "y", " ", "G", "o", "o", "d", " ", "5", "2">>,
     hasDate |-> TRUE, date |-> <<"1", "6", " ", "D", "e", "c", " ", "2", "0", "2", "5">>,
     hasTable |-> TRUE, rows |-> <<RowSmith, RowAlDNP, RowNoNumber>>]

\* an away tie at Hawks, earlier in the year, with the points record tied twice
FileHawks ==
    [hasTitle |-> TRUE, title |-> <<"P", "r", "e", "t", "t", "y", " ", "G", "o", "o", "d", " ", "3", "0", " ", "a", "t", " ", "H", "a", "w", "k", "s", " ", "3", "0", "-", "b", "o", "x", "-", "s", "c", "o", "r", "e", "s">>,
     hasDate |-> TRUE, date |-> <<"2", " ", "J", "a", "n", " ", "2", "0", "2", "5">>,
     hasTable |-> TRUE, rows |-> <<RowAlan, RowSmithTie>>]

\* a game against Rivals with lower numbers, whose date cannot be parsed: it
\* is filed under the day of the run
FileNoDate ==
    [hasTitle |-> TRUE, title |-> <<"R", "i", "v", "a", "l", "s", " ", "4", "0", " ", "a", "t", " ", "P", "r", "e", "t", "t", "y", " ", "G", "o", "o", "d", " ", "5", "2">>,
     hasDate |-> TRUE, date |-> <<"D", "e", "c", " ", "1", "6">>,
     hasTable |-> TRUE, rows |-> <<RowSmithLow>>]

\* no title element
FileNoTitle ==
    [hasTitle |-> FALSE, title |-> <<>>,
     hasDate |-> TRUE, date |-> <<"1", "6", " ", "D", "e", "c", " ", "2", "0", "2", "5">>,
     hasTable |-> TRUE, rows |-> <<RowSmith>>]

\* a title that is no score line
FileBadTitle ==
    [hasTitle |-> TRUE, title |-> <<"R", "i", "v", "a", "l", "s", " ", "v", "s", " ", "P", "r", "e", "t", "t", "y", " ", "G", "o", "o", "d">>,
     hasDate |-> TRUE, date |-> <<"1", "6", " ", "D", "e", "c", " ", "2", "0", "2", "5">>,
     hasTable |-> TRUE, rows |-> <<RowSmith>>]

\* no stats table
FileNoTable ==
    [hasTitle |-> TRUE, title |-> <<"R", "i", "v", "a", "l", "s", " ", "4", "0", " ", "a", "t", " ", "P", "r", "e", "t", "t", "y", " ", "G", "o", "o", "d", " ", "5", "2">>,
     hasDate |-> TRUE, date |-> <<"1", "6", " ", "D", "e", "c", " ", "2", "0", "2", "5">>,
     hasTable |-> FALSE, rows |-> <<>>]

\* a malformed made-attempted cell
FileMalformed ==
    [hasTitle |-> TRUE, title |-> <<"R", "i", "v", "a", "l", "s", " ", "4", "0", " ", "a", "t", " ", "P", "r", "e", "t", "t", "y", " ", "G", "o", "o", "d", " ", "5", "2">>,
     hasDate |-> TRUE, date |-> <<"1", "6", " ", "D", "e", "c", " ", "2", "0", "2", "5">>,
     hasTable |-> TRUE, rows |-> <<RowMalformed>>]

\* a cell that is no number
FileNoise ==
    [hasTitle |-> TRUE, title |-> <<"R", "i", "v", "a", "l", "s", " ", "4", "0", " ", "a", "t", " ", "P", "r", "e", "t", "t", "y", " ", "G", "o", "o", "d", " ", "5", "2">>,
     hasDate |-> TRUE, date |-> <<"1", "6", " ", "D", "e", "c", " ", "2", "0", "2", "5">>,
     hasTable |-> TRUE, rows |-> <<RowNoise>>]

\* an away loss at Owls with the row whose shots do not add up
FileOdd ==
    [hasTitle |-> TRUE, title |-> <<"P", "r", "e", "t", "t", "y", " ", "G", "o", "o", "d", " ", "2", "0", " ", "a", "t", " ", "O", "w", "l", "s", " ", "3", "0">>,
     hasDate |-> TRUE, date |-> <<"3", " ", "F", "e", "b", " ", "2", "0", "2", "5">>,
     hasTable |-> TRUE, rows |-> <<RowOdd>>]

\* both sides carry our name: the away side is taken for us
FileBoth ==
    [hasTitle |-> TRUE, title |-> <<"P", "r", "e", "t", "t", "y", " ", "G", "o", "o", "d", " ", "4", "5", " ", "a", "t", " ", "P", "R", "E", "T", "T", "Y", "-", "G", "O", "O", "D", " ", "B", " ", "5", "0">>,
     hasDate |-> TRUE, date |-> <<"9", " ", "M", "a", "r", " ", "2", "0", "2", "5">>,
     hasTable |-> TRUE, rows |-> <<RowSmithLow>>]

\* no side carries our name
FileNeither ==
    [hasTitle |-> TRUE, title |-> <<"L", "i", "o", "n", "s", " ", "6", "0", " ", "a", "t", " ", "T", "i", "g", "e", "r", "s", " ", "5", "5">>,
     hasDate |-> TRUE, date |-> <<"1", "0", " ", "M", "a", "r", " ", "2", "0", "2", "5">>,
     hasTable |-> TRUE, rows |-> <<RowSmithLow>>]

FileNames ==
    {"Rivals", "Hawks", "NoDate", "NoTitle", "BadTitle", "NoTable",
     "Malformed", "Noise", "Odd", "Both", "Neither"}

FileOf ==
    [n \in FileNames |->
        CASE n = "Rivals" -> FileRivals [] n = "Hawks" -> FileHawks
          [] n = "NoDate" -> FileNoDate
          [] n = "NoTitle" -> FileNoTitle [] n = "BadTitle" -> FileBadTitle
          [] n = "NoTable" -> FileNoTable [] n = "Malformed" -> FileMalformed
          [] n = "Noise" -> FileNoise [] n = "Odd" -> FileOdd
          [] n = "Both" -> FileBoth [] n = "Neither" -> FileNeither]

\* the days on which the parser runs
Clock == { <<"2", "0", "2", "5", "-", "1", "2", "-", "1", "6">>, <<"2", "0", "2", "6", "-", "0", "1", "-", "0", "5">> }

\* what parse_html reads off a file alone: the title's groups, the date
\* (which falls back on the day of the run), the rows
ReadPage(file) ==
    [hasTitle |-> file.hasTitle, info |-> parse_title(file.title),
     hasDate |-> file.hasDate, date |-> [now \in Clock |-> parse_date(file.date, now)],
     hasTable |-> file.hasTable, rows |-> [i \in DOMAIN file.rows |-> ReadRow(file.rows[i])]]

\* the pages of the files, read once
Pages == Table([n \in FileNames |-> ReadPage(FileOf[n])])

\* the days on which the parser runs
Today == <<"2", "0", "2", "5", "-", "1", "2", "-", "1", "6">>

NextYear == <<"2", "0", "2", "6", "-", "0", "1", "-", "0", "5">>

Fall2024 == <<"2", "0", "2", "4", " ", "f", "a", "l", "l">>

\* a command line: the file, --playoff, --season, no --opp-score, and the
\* day it runs
Run(file, is_playoff, force_season, now) ==
    [file |-> file, is_playoff |-> is_playoff, force_season |-> force_season,
     opp_score |-> NoneV, now |-> now]

\* the command lines on box scores that parse
GoodRuns ==
    {Run("Rivals", FALSE, <<>>, Today), Run("Rivals", FALSE, Fall2024, Today),
     Run("Hawks", FALSE, <<>>, Today), Run("Hawks", FALSE, <<>>, NextYear),
     Run("Hawks", TRUE, <<>>, Today),
     Run("NoDate", FALSE, <<>>, Today), Run("NoDate", FALSE, <<>>, NextYear)}

\* the command lines of the runs among which some fail: two games, a game
\* with a cell of noise
FewRuns ==
    {Run("Rivals", FALSE, <<>>, Today), Run("Hawks", FALSE, <<>>, Today),
     Run("Noise", FALSE, <<>>, Today)}

\* the command lines on box scores that do not
BadRuns ==
    {Run("NoTitle", FALSE, Fall2024, Today), Run("BadTitle", FALSE, <<>>, Today),
     Run("NoTable", FALSE, Fall2024, Today), Run("Malformed", FALSE, <<>>, Today)}

\* the most game files the model lets the directory hold
MaxGames == 2

(***************************************************************************)
(* The store and the operations on it                                      *)
(***************************************************************************)
VARIABLES
    gameFiles,     \* games/<key>.json: key -> game
    dirOrder,      \* the order in which the games directory lists its files
    gamesIndex,    \* games_index.json: key -> summary
    playersFile,   \* players.json: the registry
    seasonsMeta,   \* seasons_meta.json: season key -> display name
    recordsFile,   \* records.json
    seasonFiles,   \* seasons/<key>.json: season key -> aggregate
    torn,          \* the files a killed process left partly written
    last           \* the last operation: what ran, on what, how it ended, whether
                   \* it repeats the operation before it, whether it made a new
                   \* game file

vars ==
    <<gameFiles, dirOrder, gamesIndex, playersFile, seasonsMeta, recordsFile,
      seasonFiles, torn, last>>

NoInput ==
    [file |-> "", is_playoff |-> FALSE, force_season |-> <<>>, opp_score |-> NoneV,
     now |-> <<>>]

\* the same box score with the same flags, whatever the day of the run
SameRun(a, b) ==
    /\ a.file = b.file
    /\ a.is_playoff = b.is_playoff
    /\ a.force_season = b.force_season
    /\ a.opp_score = b.opp_score

\* the store before the first run: no file exists, and a parser loads the
\* defaults
Init ==
    /\ gameFiles = EmptyMap
    /\ dirOrder = <<>>
    /\ gamesIndex = EmptyMap
    /\ playersFile = <<>>
    /\ seasonsMeta = EmptyMap
    /\ recordsFile = [c \in Categories |-> EmptyMap]
    /\ seasonFiles = EmptyMap
    /\ torn = {}
    /\ last = [op |-> "init", in |-> NoInput, err |-> "none", again |-> FALSE,
               created |-> FALSE]

\* the orders in which a directory holding these files may list them
Listings(keys) ==
    {order \in [1..Cardinality(keys) -> keys] : Range(order) = keys}

\* glob('*.json') lists the files in the file system's order: any order,
\* the same one as long as no file is added
ListingsAfterSave(key) ==
    IF key \in DOMAIN gameFiles THEN {dirOrder}
    ELSE Listings(DOMAIN gameFiles \cup {key})

\* records.json as a key of torn
RecordsBlob == <<"records">>

\* EasyStatsParser(): the constructor loads records.json, and json.load
\* raises on a file that is cut short
Constructed == RecordsBlob \notin torn

\* parse_html of an input against the persisted registry and seasons_meta
Parsed(in) ==
    parse_html(Pages[in.file], in.is_playoff, in.force_season, in.opp_score, in.now,
               playersFile, seasonsMeta)

\* process_file, every step succeeding: the game and the index entry are
\* saved, then the registry, then both aggregates are recomputed and saved
IngestOk(in) ==
    \E r \in {Parsed(in)} :
    \E key \in {GameKey(r.game.date, r.game.opponent)} :
    \E games \in {(key :> r.game) @@ gameFiles} :
        /\ Constructed
        /\ r.err = "none"
        /\ Cardinality(DOMAIN games) <= MaxGames
        /\ gameFiles' = games
        /\ dirOrder' \in ListingsAfterSave(key)
        /\ gamesIndex' = (key :> IndexEntry(key, r.game)) @@ gamesIndex
        /\ playersFile' = r.players
        /\ seasonsMeta' = r.seasons_meta
        /\ recordsFile' = update_records(games, dirOrder', r.players)
        /\ seasonFiles' = update_season_stats(seasonFiles, games, dirOrder')
        /\ torn' = torn \ SeasonKeys(games)
        /\ last' = [op |-> "ingest", in |-> in, err |-> "none",
                    again |-> last.op = "ingest" /\ last.err = "none" /\ SameRun(last.in, in),
                    created |-> key \notin DOMAIN gameFiles]

\* process_file, parse_html raising: nothing is saved but seasons_meta.json,
\* which parse_html writes as soon as the season is resolved
IngestFails(in) ==
    \E r \in {Parsed(in)} :
        /\ Constructed
        /\ r.err # "none"
        /\ seasonsMeta' = r.seasons_meta
        /\ last' = [op |-> "ingest", in |-> in, err |-> r.err, again |-> FALSE,
                    created |-> FALSE]
        /\ UNCHANGED <<gameFiles, dirOrder, gamesIndex, playersFile, recordsFile,
                       seasonFiles, torn>>

\* update_records() on a parser just constructed
UpdateRecords ==
    /\ Constructed
    /\ recordsFile' = update_records(gameFiles, dirOrder, playersFile)
    /\ last' = [op |-> "update_records", in |-> NoInput, err |-> "none",
                again |-> last.op = "update_records", created |-> FALSE]
    /\ UNCHANGED <<gameFiles, dirOrder, gamesIndex, playersFile, seasonsMeta,
                   seasonFiles, torn>>

\* update_season_stats() on a parser just constructed
UpdateSeasonStats ==
    /\ Constructed
    /\ seasonFiles' = update_season_stats(seasonFiles, gameFiles, dirOrder)
    /\ torn' = torn \ SeasonKeys(gameFiles)
    /\ last' = [op |-> "update_season_stats", in |-> NoInput, err |-> "none",
                again |-> last.op = "update_season_stats", created |-> FALSE]
    /\ UNCHANGED <<gameFiles, dirOrder, gamesIndex, playersFile, seasonsMeta,
                   recordsFile>>

\* update_records() killed inside its save_json: open(path, 'w') has emptied
\* records.json and json.dump has written a part of it, or nothing
KilledInUpdateRecords ==
    /\ Constructed
    /\ torn' = torn \cup {RecordsBlob}
    /\ last' = [op |-> "killed", in |-> NoInput, err |-> "none", again |-> FALSE,
                created |-> FALSE]
    /\ UNCHANGED <<gameFiles, dirOrder, gamesIndex, playersFile, seasonsMeta,
                   recordsFile, seasonFiles>>

\* update_season_stats() killed inside the save_json of its i-th season: the
\* seasons before it are written, this one is cut short, the ones after it
\* are as they were
KilledInUpdateSeasonStats ==
    \E written \in {SeasonOrder(gameFiles, dirOrder, 1, <<>>)} :
    \E i \in DOMAIN written :
    \E done \in {{written[j] : j \in 1..(i - 1)}} :
    \E computed \in {ComputeSeasons(gameFiles, dirOrder)} :
        /\ Constructed
        /\ seasonFiles' = [key \in DOMAIN seasonFiles \cup done |->
                               IF key \in done THEN computed[key] ELSE seasonFiles[key]]
        /\ torn' = (torn \ done) \cup {written[i]}
        /\ last' = [op |-> "killed", in |-> NoInput, err |-> "none", again |-> FALSE,
                    created |-> FALSE]
        /\ UNCHANGED <<gameFiles, dirOrder, gamesIndex, playersFile, seasonsMeta,
                       recordsFile>>

\* the runs on box scores that parse, and the aggregators run alone
Next ==
    \/ \E in \in GoodRuns : IngestOk(in)
    \/ UpdateRecords
    \/ UpdateSeasonStats

Spec == Init /\ [][Next]_vars

\* runs that fail among runs that succeed
NextFaulty ==
    \/ \E in \in FewRuns : IngestOk(in)
    \/ \E in \in BadRuns : IngestFails(in)
    \/ UpdateRecords
    \/ UpdateSeasonStats

SpecFaulty == Init /\ [][NextFaulty]_vars

\* runs that a kill may cut short while an aggregate is saved
NextKilled ==
    \/ \E in \in GoodRuns : IngestOk(in)
    \/ UpdateRecords
    \/ UpdateSeasonStats
    \/ KilledInUpdateRecords
    \/ KilledInUpdateSeasonStats

SpecKilled == Init /\ [][NextKilled]_vars

\* the command lines of the runs among which a box score has shots that do
\* not add up
ShotRuns ==
    {Run("Rivals", FALSE, <<>>, Today), Run("Hawks", TRUE, <<>>, Today),
     Run("NoDate", FALSE, <<>>, NextYear),
     Run("Odd", FALSE, <<>>, Today), Run("Odd", TRUE, <<>>, Today)}

NextShots ==
    \/ \E in \in ShotRuns : IngestOk(in)
    \/ UpdateSeasonStats

SpecShots == Init /\ [][NextShots]_vars

\* a command line with --opp-score
RunWith(file, opp_score) ==
    [file |-> file, is_playoff |-> FALSE, force_season |-> <<>>,
     opp_score |-> IntV(opp_score), now |-> Today]

\* the command lines on titles of every kind, with and without --opp-score:
\* we are home, away, on both sides of the title, on neither; the opponent's
\* score is replaced by our own score and by 0
SideRuns ==
    {Run("Rivals", FALSE, <<>>, Today), Run("Hawks", FALSE, <<>>, Today),
     Run("Both", FALSE, <<>>, Today), Run("Neither", FALSE, <<>>, Today),
     RunWith("Rivals", 52), RunWith("Hawks", 0)}

NextSides == \E in \in SideRuns : IngestOk(in)

SpecSides == Init /\ [][NextSides]_vars

(***************************************************************************)
(* prettygoodparser.py: the parser of the same box scores that keeps its   *)
(* store under data/pretty-good                                            *)
(***************************************************************************)
TEAM_NAME == <<"P", "r", "e", "t", "t", "y", " ", "G", "o", "o", "d">>

TEAM_VARIANTS ==
    { <<"p", "r", "e", "t", "t", "y", " ", "g", "o", "o", "d">>,
      <<"p", "r", "e", "t", "t", "y", "-", "g", "o", "o", "d">>,
      <<"p", "r", "e", "t", "t", "y", "g", "o", "o", "d">> }

\* any(variant in team_name.lower() for variant in TEAM_VARIANTS)
is_our_team(team_name) == \E v \in TEAM_VARIANTS : Contains(Lower(team_name), v)

\* a new registry entry: the team is listed when the entry is made
PG_NewPlayer(number, name) ==
    [id |-> get_player_id(name), display_name |-> name, name |-> name,
     number |-> number, position |-> <<>>, teams |-> <<TEAM_NAME>>,
     images |-> [portrait |-> PortraitPath(get_player_id(name))]]

\* self.players after merge_player_data(number, name)
PG_merge_player_data(players, number, name) ==
    IF OHas(players, number)
    THEN LET existing == OGet(players, number)
         IN  IF Len(name) > Len(existing.name)
             THEN OPut(players, number,
                       [existing EXCEPT !.name = name, !.display_name = name,
                                        !.id = get_player_id(name)])
             ELSE players
    ELSE OPut(players, number, PG_NewPlayer(number, name))

\* round(made / attempted * 100, 1) if attempted > 0 else 0.0
PG_Pct(made, attempted) ==
    IF attempted > 0 THEN DecV(RoundHalfEven(made * 1000, attempted)) ELSE DecV(0)

PG_PctOf(x) ==
    IF ~Truthy(x) THEN DecV(0)
    ELSE IF x.k # "pair" THEN ErrorV
    ELSE PG_Pct(x.a, x.b)

PG_calculate_derived_stats(stats) ==
    LET fg == Get(stats, "fg", PairV(0, 0))
        three_pt == Get(stats, "3pt", PairV(0, 0))
        ft == Get(stats, "ft", PairV(0, 0))
        both == Truthy(fg) /\ Truthy(three_pt)
        two == IF ~both THEN AbsentV
               ELSE IF fg.k = "pair" /\ three_pt.k = "pair"
               THEN PairV(fg.a - three_pt.a, fg.b - three_pt.b)
               ELSE ErrorV
        orebRaw == Get(stats, "oreb", IntV(0))
        drebRaw == Get(stats, "dreb", IntV(0))
        oreb == IF Truthy(orebRaw) THEN orebRaw ELSE IntV(0)
        dreb == IF Truthy(drebRaw) THEN drebRaw ELSE IntV(0)
    IN  [f \in DerivedFields |->
            CASE f = "2pt" -> two
              [] f = "2pt_pct" ->
                    IF two.k = "pair" THEN PG_Pct(two.a, two.b) ELSE two
              [] f = "fg_pct" -> PG_PctOf(fg)
              [] f = "3pt_pct" -> PG_PctOf(three_pt)
              [] f = "ft_pct" -> PG_PctOf(ft)
              [] f = "reb" ->
                    IF oreb.k = "int" /\ dreb.k = "int" THEN IntV(oreb.a + dreb.a)
                    ELSE ErrorV]

PG_RowStats(cols) ==
    IF Len(cols) < NumColumns THEN [err |-> TRUE, stats |-> EmptyMap]
    ELSE LET raw == [f \in RawFields |-> parse_stat_value(Strip(cols[ColumnOf[f]]))]
             derived == PG_calculate_derived_stats(raw)
             stats == [f \in StatFields |-> IF f \in DerivedFields THEN derived[f] ELSE raw[f]]
         IN  [err |-> \E f \in StatFields : stats[f].k = "error", stats |-> stats]

PG_ReadRow(cols) ==
    [cells |-> Len(cols),
     who |-> IF Len(cols) < 1 THEN extract_player_number(<<>>)
             ELSE extract_player_number(Strip(cols[1])),
     dnp |-> IsDNP(cols),
     row |-> PG_RowStats(cols)]

RECURSIVE PG_ProcessRows(_, _, _)
\* the loop over the table's rows: the registry is merged, no team is added
PG_ProcessRows(rows, i, acc) ==
    IF i > Len(rows) THEN acc
    ELSE LET who == rows[i].who
         IN  IF rows[i].cells < 2 \/ ~who.ok THEN PG_ProcessRows(rows, i + 1, acc)
             ELSE LET merged == PG_merge_player_data(acc.players, who.number, who.name)
                  IN  IF rows[i].dnp
                      THEN PG_ProcessRows(rows, i + 1, [acc EXCEPT !.players = merged])
                      ELSE IF rows[i].row.err
                      THEN [acc EXCEPT !.err = TRUE, !.players = merged]
                      ELSE PG_ProcessRows(rows, i + 1,
                               [acc EXCEPT !.players = merged,
                                           !.stats = OPut(acc.stats, who.number,
                                                          rows[i].row.stats)])

\* the season key and display name; a forced season that is a year alone is
\* displayed as '<year> Season'
PG_ResolveSeason(date, force_season) ==
    LET given == force_season # <<>>
        fs == Strip(force_season)
        hasYear == Len(fs) >= 4 /\ AllDigits(Slice(fs, 1, 4))
        key == IF given /\ hasYear THEN Slice(fs, 1, 4) ELSE Slice(date, 1, 4)
        suffix == IF hasYear THEN Slice(fs, SpaceRunEnd(fs, 5) + 1, Len(fs)) ELSE <<>>
        display == IF ~given THEN key
                   ELSE IF ~hasYear THEN Title(fs)
                   ELSE IF suffix # <<>> THEN key \o <<" ">> \o Title(Strip(suffix))
                   ELSE key \o <<" ", "S", "e", "a", "s", "o", "n">>
    IN  [set |-> given, key |-> key, display |-> display]

PG_Sides(info, opp_score) ==
    LET is_home == ~is_our_team(info.away_team) /\ is_our_team(info.home_team)
    IN  [is_home |-> is_home,
         opponent |-> IF is_home THEN info.away_team ELSE info.home_team,
         us |-> IF is_home THEN info.home_score ELSE info.away_score,
         them |-> IF opp_score.k # "none" THEN opp_score.a
                  ELSE IF is_home THEN info.away_score ELSE info.home_score]

PG_parse_html(page, is_playoff, force_season, opp_score, now, players, seasons_meta) ==
    LET info == page.info
        date == IF page.hasDate THEN page.date[now] ELSE now
        season == PG_ResolveSeason(date, force_season)
        meta == IF season.set
                THEN (season.key :> [key |-> season.key, display_name |-> season.display])
                         @@ seasons_meta
                ELSE seasons_meta
        sides == PG_Sides(info, opp_score)
        rows == PG_ProcessRows(page.rows, 1,
                               [err |-> FALSE, players |-> players, stats |-> <<>>])
        early == [err |-> "none", game |-> NoGame, players |-> players,
                  seasons_meta |-> seasons_meta, metaSaved |-> FALSE]
    IN  IF ~page.hasTitle THEN [early EXCEPT !.err = "MissingTitle"]
        ELSE IF ~info.ok THEN [early EXCEPT !.err = "TitleFormat"]
        ELSE IF ~page.hasTable
        THEN [early EXCEPT !.err = "MissingStatsTable", !.seasons_meta = meta,
                           !.metaSaved = season.set]
        ELSE IF rows.err
        THEN [early EXCEPT !.err = "RowError", !.seasons_meta = meta,
                           !.metaSaved = season.set, !.players = rows.players]
        ELSE [err |-> "none",
              game |-> [date |-> date, season |-> season.key, opponent |-> sides.opponent,
                        homeAway |-> IF sides.is_home THEN "home" ELSE "away",
                        score |-> [us |-> sides.us, them |-> sides.them],
                        result |-> ResultOf(sides.us, sides.them),
                        isPlayoff |-> is_playoff, stats |-> rows.stats],
              players |-> rows.players, seasons_meta |-> meta, metaSaved |-> season.set]

\* the same loop as update_records of easystats-parse.py
PG_update_records(games, order, players) ==
    RecordsAfterGames(ResetRecords, games, order, 1, players)

\* the averages and percentages, set when gp > 0: every average is rounded,
\* a percentage without attempts is 0.0
PG_WithAverages(agg) ==
    LET gp == agg["gp"].a
    IN  IF gp <= 0 THEN agg
        ELSE [f \in AggFields |->
                 IF f \in DOMAIN AverageOf THEN PerGame(agg[AverageOf[f]].a, gp)
                 ELSE IF f \in DOMAIN PerGameOf
                 THEN PerGame(agg[PerGameOf[f][1]][PerGameOf[f][2]], gp)
                 ELSE IF f \in DOMAIN PercentOf
                 THEN PG_Pct(agg[PercentOf[f]].a, agg[PercentOf[f]].b)
                 ELSE agg[f]]

PG_update_season_stats(stored, games, order) ==
    LET folded == SeasonsAfterGames(NoSeasons, games, order, 1)
        computed == Table([key \in DOMAIN folded |->
                              [c \in Categories |->
                                  [n \in DOMAIN folded[key][c] |->
                                      PG_WithAverages(folded[key][c][n])]]])
    IN  [key \in DOMAIN stored \cup DOMAIN computed |->
            IF key \in DOMAIN computed THEN computed[key] ELSE stored[key]]

PG_ReadPage(file) ==
    [hasTitle |-> file.hasTitle, info |-> parse_title(file.title),
     hasDate |-> file.hasDate, date |-> [now \in Clock |-> parse_date(file.date, now)],
     hasTable |-> file.hasTable, rows |-> [i \in DOMAIN file.rows |-> PG_ReadRow(file.rows[i])]]

\* the pages as prettygoodparser.py reads them, read once
PG_Pages == Table([n \in FileNames |-> PG_ReadPage(FileOf[n])])

\* the command lines of prettygoodparser.py
PG_Runs ==
    {Run("Rivals", FALSE, <<>>, Today), Run("Hawks", FALSE, <<>>, Today),
     Run("Hawks", TRUE, <<"2", "0", "2", "5">>, Today),
     Run("NoDate", FALSE, <<>>, Today), Run("NoDate", FALSE, <<>>, NextYear)}

\* the command lines of easystats-parse.py that built the store under data/
\* before it was migrated
MigratedRuns == {Run("Rivals", FALSE, <<>>, Today), Run("Hawks", FALSE, Fall2024, Today)}

\* the store under data/ after easystats-parse.py ingested one box score
\* into an empty store
StoreAfter(in) ==
    LET r == parse_html(Pages[in.file], in.is_playoff, in.force_season, in.opp_score, in.now,
                        <<>>, EmptyMap)
        key == GameKey(r.game.date, r.game.opponent)
        games == key :> r.game
    IN  [gameFiles |-> games, dirOrder |-> <<key>>,
         gamesIndex |-> key :> IndexEntry(key, r.game),
         playersFile |-> r.players, seasonsMeta |-> r.seasons_meta,
         recordsFile |-> update_records(games, <<key>>, r.players),
         seasonFiles |-> update_season_stats(EmptyMap, games, <<key>>)]

\* migrate-prettygood.py, run once before prettygoodparser.py has a store:
\* every file and directory under data/ is copied to data/pretty-good
Migrate(in) ==
    \E store \in {StoreAfter(in)} :
        /\ last.op = "init"
        /\ gameFiles' = store.gameFiles
        /\ dirOrder' = store.dirOrder
        /\ gamesIndex' = store.gamesIndex
        /\ playersFile' = store.playersFile
        /\ seasonsMeta' = store.seasonsMeta
        /\ recordsFile' = store.recordsFile
        /\ seasonFiles' = store.seasonFiles
        /\ last' = [op |-> "migrate", in |-> in, err |-> "none", again |-> FALSE,
                    created |-> FALSE]
        /\ UNCHANGED torn

\* process_file of prettygoodparser.py, every step succeeding
PG_IngestOk(in) ==
    \E r \in {PG_parse_html(PG_Pages[in.file], in.is_playoff, in.force_season, in.opp_score,
                            in.now, playersFile, seasonsMeta)} :
    \E key \in {GameKey(r.game.date, r.game.opponent)} :
    \E games \in {(key :> r.game) @@ gameFiles} :
        /\ Constructed
        /\ r.err = "none"
        /\ Cardinality(DOMAIN games) <= MaxGames
        /\ gameFiles' = games
        /\ dirOrder' \in ListingsAfterSave(key)
        /\ gamesIndex' = (key :> IndexEntry(key, r.game)) @@ gamesIndex
        /\ playersFile' = r.players
        /\ seasonsMeta' = r.seasons_meta
        /\ recordsFile' = PG_update_records(games, dirOrder', r.players)
        /\ seasonFiles' = PG_update_season_stats(seasonFiles, games, dirOrder')
        /\ torn' = torn \ SeasonKeys(games)
        /\ last' = [op |-> "pg_ingest", in |-> in, err |-> "none",
                    again |-> last.op = "pg_ingest" /\ last.err = "none" /\ SameRun(last.in, in),
                    created |-> key \notin DOMAIN gameFiles]

\* prettygoodparser.py on its store, empty at first or migrated from data/
NextMigrated ==
    \/ \E in \in MigratedRuns : Migrate(in)
    \/ \E in \in PG_Runs : PG_IngestOk(in)

SpecMigrated == Init /\ [][NextMigrated]_vars

(***************************************************************************)
(* calculate_derived_stats on its own: the raw stats a row can give, with  *)
(* a made-attempted pair or null in a shooting column and a number or null *)
(* in a counting column                                                    *)
(***************************************************************************)
\* the most shots made or attempted of the field goals and 3-pointers tried
MaxShots == 3

ShootingCells == {NoneV} \cup {PairV(m, n) : m \in 0..MaxShots, n \in 0..MaxShots}

\* the free throws tried: null, none attempted, 2 of 3
FreeThrowCells == {NoneV, PairV(0, 0), PairV(2, 3)}

\* the rebounds tried
CountingCells == {NoneV, IntV(0), IntV(2)}

\* the stats dict parse_html builds from a row: every key is there
RawStatsOf(fg, three_pt, ft, oreb, dreb) ==
    [f \in RawFields |->
        CASE f = "fg" -> fg [] f = "3pt" -> three_pt [] f = "ft" -> ft
          [] f = "oreb" -> oreb [] f = "dreb" -> dreb [] OTHER -> IntV(1)]

InitDerived ==
    /\ gameFiles = EmptyMap
    /\ dirOrder = <<>>
    /\ gamesIndex = EmptyMap
    /\ playersFile = <<>>
    /\ seasonsMeta = EmptyMap
    /\ recordsFile = [c \in Categories |-> EmptyMap]
    /\ seasonFiles = EmptyMap
    /\ torn = {}
    /\ \E fg \in ShootingCells, three_pt \in ShootingCells, ft \in FreeThrowCells,
          oreb \in CountingCells, dreb \in CountingCells :
           last = [op |-> "row", in |-> RawStatsOf(fg, three_pt, ft, oreb, dreb)]

\* derived = self.calculate_derived_stats(stats), in either parser
CalculateDerived ==
    /\ last.op = "row"
    /\ last' = [op |-> "derived", in |-> last.in, out |-> calculate_derived_stats(last.in),
                pg |-> PG_calculate_derived_stats(last.in)]
    /\ UNCHANGED <<gameFiles, dirOrder, gamesIndex, playersFile, seasonsMeta, recordsFile,
                   seasonFiles, torn>>

NextDerived == CalculateDerived

SpecDerived == InitDerived /\ [][NextDerived]_vars

(***************************************************************************)
(* get_player_id on its own: names of a few characters with periods,       *)
(* spaces, a tab and letters of both cases                                 *)
(***************************************************************************)
\* the longest name tried
MaxName == 4

NameChars == {"J", "s", ".", " ", "\t"}

RECURSIVE NamesOfLength(_)
NamesOfLength(n) ==
    IF n = 0 THEN {<<>>}
    ELSE {Append(name, c) : name \in NamesOfLength(n - 1), c \in NameChars}

NamesTried == UNION {NamesOfLength(n) : n \in 0..MaxName}

InitIds ==
    /\ gameFiles = EmptyMap
    /\ dirOrder = <<>>
    /\ gamesIndex = EmptyMap
    /\ playersFile = <<>>
    /\ seasonsMeta = EmptyMap
    /\ recordsFile = [c \in Categories |-> EmptyMap]
    /\ seasonFiles = EmptyMap
    /\ torn = {}
    /\ \E name \in NamesTried : last = [op |-> "name", in |-> name]

\* player_id = self.get_player_id(name), the same in either parser
GetPlayerId ==
    /\ last.op = "name"
    /\ last' = [op |-> "id", in |-> last.in, out |-> get_player_id(last.in)]
    /\ UNCHANGED <<gameFiles, dirOrder, gamesIndex, playersFile, seasonsMeta, recordsFile,
                   seasonFiles, torn>>

NextIds == GetPlayerId

SpecIds == InitIds /\ [][NextIds]_vars

(***************************************************************************)
(* fix-player-numbers.py: the numbers of the players are remapped in every *)
(* game file and in players.json                                           *)
(***************************************************************************)
\* a variant that has no default for a number the mapping does not hold
MapNumberOrNull(mapping, old_num) ==
    IF old_num \in DOMAIN mapping THEN mapping[old_num] ELSE Null

\* mapping.get(old_num, old_num)
MapNumber(mapping, old_num) ==
    IF old_num \in DOMAIN mapping THEN mapping[old_num] ELSE old_num

RECURSIVE RemapStats(_, _, _, _)
\* new_stats after the loop over game['stats'].items(), from entry i on: an
\* entry whose new number is already in new_stats replaces that entry
RemapStats(stats, mapping, i, new_stats) ==
    IF i > Len(stats) THEN new_stats
    ELSE RemapStats(stats, mapping, i + 1,
                    OPut(new_stats, MapNumber(mapping, stats[i].key), stats[i].val))

\* the game that remap_game_file saves
remap_game_file(game, mapping) ==
    [game EXCEPT !.stats = RemapStats(game.stats, mapping, 1, <<>>)]

RECURSIVE RemapPlayers(_, _, _, _)
\* new_players after the loop over players.items(), from entry i on
RemapPlayers(players, mapping, i, new_players) ==
    IF i > Len(players) THEN new_players
    ELSE LET new_num == MapNumber(mapping, players[i].key)
         IN  RemapPlayers(players, mapping, i + 1,
                          OPut(new_players, new_num,
                               [players[i].val EXCEPT !.number = new_num]))

\* a variant that moves the records and leaves their number field
remap_players_file_keys_only(players, mapping) == RemapStats(players, mapping, 1, <<>>)

\* the registry that remap_players_file saves
remap_players_file(players, mapping) == RemapPlayers(players, mapping, 1, <<>>)

\* the mapping files: a number renamed, two numbers swapped, a number sent
\* onto another player's number
Mappings ==
    { (<<"7">> :> <<"1", "4">>),
      (<<"7">> :> <<"3">>) @@ (<<"3">> :> <<"7">>),
      (<<"7">> :> <<"3">>) }

\* a variant that remaps the game files and leaves players.json
RemapGamesOnly(mapping) ==
    /\ gameFiles' = [k \in DOMAIN gameFiles |-> remap_game_file(gameFiles[k], mapping)]
    /\ playersFile' = playersFile
    /\ last' = [op |-> "remap", in |-> NoInput, err |-> "none", again |-> FALSE,
                created |-> FALSE, mapping |-> mapping]
    /\ UNCHANGED <<dirOrder, gamesIndex, seasonsMeta, recordsFile, seasonFiles, torn>>

\* a variant that remaps players.json and leaves the game files
RemapRegistryOnly(mapping) ==
    /\ gameFiles' = gameFiles
    /\ playersFile' = remap_players_file(playersFile, mapping)
    /\ last' = [op |-> "remap", in |-> NoInput, err |-> "none", again |-> FALSE,
                created |-> FALSE, mapping |-> mapping]
    /\ UNCHANGED <<dirOrder, gamesIndex, seasonsMeta, recordsFile, seasonFiles, torn>>

\* main of fix-player-numbers.py, answered 'yes': every game file is
\* remapped, then players.json; no index and no aggregate is touched
Remap(mapping) ==
    /\ gameFiles' = [k \in DOMAIN gameFiles |-> remap_game_file(gameFiles[k], mapping)]
    /\ playersFile' = remap_players_file(playersFile, mapping)
    /\ last' = [op |-> "remap", in |-> NoInput, err |-> "none", again |-> FALSE,
                created |-> FALSE, mapping |-> mapping]
    /\ UNCHANGED <<dirOrder, gamesIndex, seasonsMeta, recordsFile, seasonFiles, torn>>

\* the command lines between which the numbers are remapped
RemapRuns == {Run("Hawks", FALSE, <<>>, Today), Run("NoDate", FALSE, <<>>, Today)}

NextRemap ==
    \/ \E in \in RemapRuns : IngestOk(in)
    \/ \E mapping \in Mappings : Remap(mapping)

SpecRemap == Init /\ [][NextRemap]_vars

\* the mapping files of one number: the rename and the collision
OneNumberMappings == {mapping \in Mappings : Cardinality(DOMAIN mapping) = 1}

\* the same runs, and runs that recompute the records from the games
NextRenumbered ==
    \/ \E in \in RemapRuns : IngestOk(in)
    \/ \E mapping \in OneNumberMappings : Remap(mapping)
    \/ UpdateRecords

SpecRenumbered == Init /\ [][NextRenumbered]_vars

(***************************************************************************)
(* What the properties speak of                                            *)
(***************************************************************************)
\* the records were recomputed by the last operation
RecordsUpdated == last.op = "update_records" \/ (last.op = "ingest" /\ last.err = "none")

\* the season aggregates were recomputed by the last operation
SeasonsUpdated ==
    last.op = "update_season_stats" \/ (last.op = "ingest" /\ last.err = "none")

\* the category of a game, and the games of a category
CategoryOf(k) == IF gameFiles[k].isPlayoff THEN "playoff" ELSE "regular"

GamesOf(c) == {k \in DOMAIN gameFiles : c = "all" \/ c = CategoryOf(k)}

\* the player entries of the games of a category: <<game key, position>>
EntriesOf(c) ==
    UNION {{<<k, i>> : i \in DOMAIN gameFiles[k].stats} : k \in GamesOf(c)}

\* the value an entry offers for a stat: the number, the made shots of a
\* pair, 0 when the field is null or absent
Offered(e, st) ==
    LET stats == gameFiles[e[1]].stats[e[2]].val
        v == IF st \in DOMAIN stats THEN stats[st] ELSE NoneV
    IN  IF v.k \in {"int", "pair"} THEN v.a ELSE 0

\* the entries that offer a positive value, and those that offer the greatest
Positive(c, st) == {e \in EntriesOf(c) : Offered(e, st) > 0}

Greatest(c, st) ==
    {e \in Positive(c, st) : \A o \in Positive(c, st) : Offered(o, st) <= Offered(e, st)}

\* a record entry names this entry's player, date and opponent
Names(entry, e) ==
    /\ entry.player_number = gameFiles[e[1]].stats[e[2]].key
    /\ entry.date = gameFiles[e[1]].date
    /\ entry.opponent = gameFiles[e[1]].opponent

\* the characters of a storage key in ascending order
KeyAlphabet == <<"-">> \o Digits \o LowerCase

Rank(ch) == CHOOSE i \in DOMAIN KeyAlphabet : KeyAlphabet[i] = ch

RECURSIVE KeyBefore(_, _)
\* a sorts before b
KeyBefore(a, b) ==
    IF b = <<>> THEN FALSE
    ELSE IF a = <<>> THEN TRUE
    ELSE IF a[1] # b[1] THEN Rank(a[1]) < Rank(b[1])
    ELSE KeyBefore(Tail(a), Tail(b))

\* e comes before o when the games are taken ascending by key and the
\* players of a game as the game holds them
EntryBefore(e, o) == KeyBefore(e[1], o[1]) \/ (e[1] = o[1] /\ e[2] < o[2])

C2_TieKeepsEarliestByKey ==
    /\ \A i, j \in DOMAIN dirOrder : i < j => KeyBefore(dirOrder[i], dirOrder[j])
    /\ RecordsUpdated =>
           \A c \in Categories, st \in StatNames :
               \A e \in Greatest(c, st) :
                   (\A o \in Greatest(c, st) : o = e \/ EntryBefore(e, o))
                       => Names(recordsFile[c][st], e)

(***************************************************************************)
(* C3: what a record holds                                                 *)
(***************************************************************************)
\* the entry the claim expects where no positive value exists
AllNullRecord ==
    [player |-> Null, player_number |-> Null, value |-> NoneV, date |-> Null,
     opponent |-> Null]

\* the entry found there
ZeroRecord ==
    [player |-> Null, player_number |-> Null, value |-> IntV(0), date |-> Null,
     opponent |-> Null]

\* a record is right when, some positive value existing, its value is the
\* greatest and it names an entry that offers it, and, none existing, it is
\* the entry given
RecordRight(c, st, none) ==
    LET entry == recordsFile[c][st]
    IN  IF Positive(c, st) = {} THEN entry = none
        ELSE /\ entry.value.k = "int"
             /\ \E e \in Greatest(c, st) :
                    entry.value.a = Offered(e, st) /\ Names(entry, e)

\* C3 as stated: after update_records every record holds the greatest
\* positive value of its stat over the entries of its category and names an
\* entry that attains it; where no positive value exists it is all null.
C3_AsStated ==
    RecordsUpdated =>
        \A c \in Categories, st \in StatNames : RecordRight(c, st, AllNullRecord)

\* C3: after update_records every record holds the greatest positive value
\* of its stat over the entries of its category and names an entry that
\* attains it; where no positive value exists (only null or zero values, or
\* no entry) its player, number, date and opponent are null and its value
\* is 0.
C3_RecordIsGreatest ==
    RecordsUpdated =>
        \A c \in Categories, st \in StatNames : RecordRight(c, st, ZeroRecord)

\* records were recomputed over a game with a positive stat, a stat that is
\* zero for every entry, and a category without games
C3_Witness ==
    /\ RecordsUpdated
    /\ Positive("all", "pts") # {}
    /\ \E st \in StatNames : EntriesOf("all") # {} /\ Positive("all", st) = {}
    /\ EntriesOf("playoff") = {}

(***************************************************************************)
(* C4: records never decrease while the corpus grows                       *)
(***************************************************************************)
\* the step is a successful ingestion that keeps every game as it was
CorpusGrows ==
    /\ last'.op = "ingest"
    /\ last'.err = "none"
    /\ \A k \in DOMAIN gameFiles : k \in DOMAIN gameFiles' /\ gameFiles'[k] = gameFiles[k]

\* C4: when a successful ingestion keeps every game of the corpus as it was,
\* every record value after its recomputation is at least the value after
\* the recomputation of the ingestion before it.
C4_RecordsMonotone ==
    [][(last.op = "ingest" /\ last.err = "none" /\ CorpusGrows) =>
          \A c \in Categories, st \in StatNames :
              recordsFile'[c][st].value.a >= recordsFile[c][st].value.a]_vars

\* a second game was added, with less than the record the first one set
C4_Witness ==
    /\ last.op = "ingest"
    /\ last.err = "none"
    /\ last.created
    /\ Cardinality(DOMAIN gameFiles) = 2
    /\ \E e \in EntriesOf("all") :
           /\ gameFiles[e[1]].date = last.in.now
           /\ Offered(e, "pts") > 0
           /\ Offered(e, "pts") < recordsFile["all"]["pts"].value.a

(***************************************************************************)
(* C5: a failed ingestion persists nothing                                 *)
(***************************************************************************)
\* C5: an ingestion that fails with MissingTitle, TitleFormat or
\* MissingStatsTable leaves the game files, the index, the registry,
\* seasons_meta, the records and the season files exactly as they were,
\* whatever its flags.
C5_FailureBeforePersistence ==
    [][(last'.op = "ingest"
            /\ last'.err \in {"MissingTitle", "TitleFormat", "MissingStatsTable"})
          => UNCHANGED <<gameFiles, dirOrder, gamesIndex, playersFile, seasonsMeta,
                         recordsFile, seasonFiles>>]_vars

(***************************************************************************)
(* C6: a malformed cell                                                    *)
(***************************************************************************)
\* the text is '-', an integer, or two integers joined by '-'
WellFormed(text) ==
    \/ text = <<"-">>
    \/ text # <<>> /\ AllDigits(text)
    \/ \E i \in 2..(Len(text) - 1) :
           /\ text[i] = "-"
           /\ AllDigits(Slice(text, 1, i - 1))
           /\ AllDigits(Slice(text, i + 1, Len(text)))

\* the rows of a file that name a player, and the stat cells of a row
PlayerRows(file) ==
    {i \in DOMAIN file.rows : extract_player_number(Strip(file.rows[i][1])).ok}

HasMalformedCell(file) ==
    \E i \in PlayerRows(file), f \in RawFields :
        ~WellFormed(Strip(file.rows[i][ColumnOf[f]]))

\* C6: an ingestion of a file with a malformed stat cell completes, and the
\* game it stores holds, for every row that names a player, null for each
\* malformed cell and the parsed value of each other cell.
C6_MalformedCellIsAbsent ==
    (last.op = "ingest" /\ HasMalformedCell(FileOf[last.in.file])) =>
        /\ last.err = "none"
        /\ \E k \in DOMAIN gameFiles :
               \A i \in PlayerRows(FileOf[last.in.file]), f \in RawFields :
                   LET row == FileOf[last.in.file].rows[i]
                       number == extract_player_number(Strip(row[1])).number
                       text == Strip(row[ColumnOf[f]])
                   IN  /\ OHas(gameFiles[k].stats, number)
                       /\ OGet(gameFiles[k].stats, number)[f]
                              = IF WellFormed(text) THEN parse_stat_value(text) ELSE NoneV

(***************************************************************************)
(* C7: the derived files are written atomically                            *)
(***************************************************************************)
\* C7: whenever a process is killed, records.json and every season file hold
\* either their previous content or their new content in full: none is left
\* cut short.
C7_NoTornBlob == \A key \in {RecordsBlob} \cup DOMAIN seasonFiles \cup torn : key \notin torn

(***************************************************************************)
(* C8: the derived files are what the aggregators compute                  *)
(***************************************************************************)
\* C8: after a successful ingestion records.json is what update_records
\* computes from the game files and the registry, and the season files are
\* exactly the seasons update_season_stats computes from the game files: no
\* file is left over for a season that no game carries.
C8_DerivedAreRecomputed ==
    (last.op = "ingest" /\ last.err = "none") =>
        /\ recordsFile = update_records(gameFiles, dirOrder, playersFile)
        /\ seasonFiles = ComputeSeasons(gameFiles, dirOrder)

(***************************************************************************)
(* C9: the storage key, and the same box score ingested again              *)
(***************************************************************************)
\* every game file and index entry sits under the key of its date and
\* opponent, the index holding the games of the directory
KeyedByDateAndSlug ==
    /\ DOMAIN gamesIndex = DOMAIN gameFiles
    /\ \A k \in DOMAIN gameFiles :
           /\ k = GameKey(gameFiles[k].date, gameFiles[k].opponent)
           /\ k = GameKey(gamesIndex[k].date, gamesIndex[k].opponent)

\* the step ingests again, with the same flags, the box score the step
\* before it ingested, and the date of that box score parses
SameBoxScoreAgain ==
    /\ last.op = "ingest" /\ last.err = "none"
    /\ last'.op = "ingest" /\ last'.err = "none"
    /\ SameRun(last.in, last'.in)
    /\ FileOf[last'.in.file].hasDate
    /\ DateOk(FileOf[last'.in.file].date)

\* C9: every game is stored, and indexed, under the key made of its date and
\* the slug of its opponent; and ingesting the same box score again with
\* the same flags, its date parsing, leaves the game files, the index, the
\* registry, the records and the season files as the first ingestion left
\* them.
C9_SameBoxScoreAgain ==
    /\ []KeyedByDateAndSlug
    /\ [][SameBoxScoreAgain
            => UNCHANGED <<gameFiles, dirOrder, gamesIndex, playersFile, recordsFile,
                           seasonFiles>>]_vars

\* the Hawks box score was ingested twice in a row, the second time on
\* another day
C9_Witness ==
    /\ last.op = "ingest"
    /\ last.again
    /\ last.in.file = "Hawks"
    /\ last.in.now = NextYear
    /\ DateOk(FileOf[last.in.file].date)

(***************************************************************************)
(* C10: the totals of a season                                             *)
(***************************************************************************)
\* the games of a season and category
SeasonGames(season, c) == {k \in GamesOf(c) : gameFiles[k].season = season}

\* the stats of a player in a game, and the games where the player has some
StatsIn(k, n) == OGet(gameFiles[k].stats, n)

PlayedIn(games, n) == {k \in games : OHas(gameFiles[k].stats, n)}

\* one number of a player's stats in a game: a counting stat (null as 0), or
\* the made (part = "a") or attempted (part = "b") shots of a shooting stat
NumberIn(k, n, f, part) ==
    LET v == IF f \in DOMAIN StatsIn(k, n) THEN StatsIn(k, n)[f] ELSE NoneV
    IN  IF v.k = "int" /\ part = "a" THEN v.a
        ELSE IF v.k = "pair" THEN v[part]
        ELSE 0

RECURSIVE SumIn(_, _, _, _)
SumIn(games, n, f, part) ==
    IF games = {} THEN 0
    ELSE LET k == CHOOSE g \in games : TRUE
         IN  NumberIn(k, n, f, part) + SumIn(games \ {k}, n, f, part)

\* C10: after update_season_stats, in the file of every season that the
\* games carry and in every category, each player with stats in a game of
\* the season has gp equal to the number of the season's games of the
\* category that hold stats of the player, each counting total equal to
\* the sum of the stat over those games (null as 0), and each shooting total
\* equal to the sums of the made and of the attempted shots: a game counts
\* in its own category and in 'all', of its own season only.
C10_SeasonTotals ==
    SeasonsUpdated =>
        \A season \in {gameFiles[k].season : k \in DOMAIN gameFiles} :
            /\ season \in DOMAIN seasonFiles
            /\ \A c \in Categories :
                   LET played(n) == PlayedIn(SeasonGames(season, c), n)
                       agg == seasonFiles[season][c]
                   IN  /\ DOMAIN agg
                              = {n \in UNION {OKeys(gameFiles[k].stats) : k \in DOMAIN gameFiles} :
                                    PlayedIn(SeasonGames(season, "all"), n) # {}}
                       /\ \A n \in DOMAIN agg :
                              /\ agg[n]["gp"] = IntV(Cardinality(played(n)))
                              /\ \A f \in CountingStats :
                                     agg[n][f] = IntV(SumIn(played(n), n, f, "a"))
                              /\ \A f \in ShootingStats :
                                     agg[n][f] = PairV(SumIn(played(n), n, f, "a"),
                                                       SumIn(played(n), n, f, "b"))

\* the seasons were recomputed over two games of one season, one of them a
\* playoff game, both with stats of one player
C10_Witness ==
    /\ SeasonsUpdated
    /\ \E season \in DOMAIN seasonFiles, n \in OKeys(playersFile) :
           /\ Cardinality(PlayedIn(SeasonGames(season, "all"), n)) = 2
           /\ Cardinality(PlayedIn(SeasonGames(season, "playoff"), n)) = 1

(***************************************************************************)
(* C11: the name, display name and id of a registered player               *)
(***************************************************************************)
\* the names the rows of a box score give for a number, as the loop merges
\* them
IncomingNames(file, number) ==
    {Pages[file].rows[i].who.name :
        i \in {i \in DOMAIN Pages[file].rows :
                  /\ Pages[file].rows[i].cells >= 2
                  /\ Pages[file].rows[i].who.ok
                  /\ Pages[file].rows[i].who.number = number}}

\* the names an operation merges into the registry for a number
MergedNames(op, number) ==
    IF op.op = "ingest" /\ op.err = "none" THEN IncomingNames(op.in.file, number) ELSE {}

\* every record's id is the slug of its name
IdsFollowNames ==
    \A i \in DOMAIN playersFile : playersFile[i].val.id = get_player_id(playersFile[i].val.name)

\* C11: merging into a number already in the registry replaces the name and
\* the display name exactly when an incoming name is strictly longer than the
\* stored one, and then sets the id to the slug of the new name; otherwise
\* name, display name and id stay.  Position, images and number stay in both
\* cases.  Hence every record's id is the slug of its name and the length of
\* a record's name never decreases.
C11_MergeKeepsLongerName ==
    /\ []IdsFollowNames
    /\ [][\A number \in OKeys(playersFile) :
              /\ OHas(playersFile', number)
              /\ LET old == OGet(playersFile, number)
                     new == OGet(playersFile', number)
                     names == MergedNames(last', number)
                     longer == {n \in names : Len(n) > Len(old.name)}
                 IN  /\ new.position = old.position
                     /\ new.images = old.images
                     /\ new.number = old.number
                     /\ Len(new.name) >= Len(old.name)
                     /\ longer = {} =>
                            /\ new.name = old.name
                            /\ new.display_name = old.display_name
                            /\ new.id = old.id
                     /\ longer # {} =>
                            /\ new.name \in longer
                            /\ \A n \in names : Len(n) <= Len(new.name)
                            /\ new.display_name = new.name
                            /\ new.id = get_player_id(new.name)]_vars

\* a box score naming number 3 "Alan" was ingested after one that had
\* registered the number as "Al": the record holds the longer name
C11_Witness ==
    /\ last.op = "ingest"
    /\ last.in.file = "Hawks"
    /\ Len(playersFile) = 2
    /\ playersFile[1].key = <<"7">>
    /\ playersFile[2].key = <<"3">>
    /\ playersFile[2].val.name = <<"A", "l", "a", "n">>
    /\ playersFile[2].val.id = <<"a", "l", "a", "n">>
    /\ \E k \in DOMAIN gameFiles : OKeys(gameFiles[k].stats) = {<<"7">>}

(***************************************************************************)
(* C12: the team in a player's list of teams                               *)
(***************************************************************************)
\* a parser has just ingested a box score
Ingested == last.op \in {"ingest", "pg_ingest"} /\ last.err = "none"

\* the team name the parser that ran last adds
CurrentTeam == IF last.op = "pg_ingest" THEN TEAM_NAME ELSE OurTeam

\* how many times a list of teams holds a team
Times(team, teams) == Cardinality({i \in DOMAIN teams : teams[i] = team})

\* C12: after an ingestion, every player a row of the box score names with a
\* number has the current team name in teams exactly once, whether the
\* record was created by this ingestion or was in the registry before, with
\* or without the team.
C12_TeamListedOnce ==
    Ingested =>
        \A number \in OKeys(playersFile) :
            IncomingNames(last.in.file, number) # {}
                => Times(CurrentTeam, OGet(playersFile, number).teams) = 1

(***************************************************************************)
(* C13: rows of players who did not play, rows without a number            *)
(***************************************************************************)
\* the game the last ingestion stored
LastPage == Pages[last.in.file]

LastDate == IF LastPage.hasDate THEN LastPage.date[last.in.now] ELSE last.in.now

LastOpponent ==
    IF last.op = "pg_ingest" THEN PG_Sides(LastPage.info, last.in.opp_score).opponent
    ELSE Sides(LastPage.info, last.in.opp_score).opponent

LastGame == gameFiles[GameKey(LastDate, LastOpponent)]

\* the rows of a box score whose label has a number, and the numbers of
\* those where every stat cell is '-' and of those with stats
NumberedRows(file) ==
    {i \in DOMAIN Pages[file].rows :
        Pages[file].rows[i].cells >= 2 /\ Pages[file].rows[i].who.ok}

DNPNumbers(file) ==
    {Pages[file].rows[i].who.number : i \in {i \in NumberedRows(file) : Pages[file].rows[i].dnp}}

PlayingNumbers(file) ==
    {Pages[file].rows[i].who.number : i \in {i \in NumberedRows(file) : ~Pages[file].rows[i].dnp}}

\* a record is held by this player for this game
HoldsRecordFor(n, game) ==
    \E c \in Categories, st \in StatNames :
        /\ recordsFile[c][st].player_number = n
        /\ recordsFile[c][st].date = game.date
        /\ recordsFile[c][st].opponent = game.opponent

\* C13: after an ingestion, a player whose row has a number and '-' in every
\* stat cell has no stats entry in the stored game, is in the registry with
\* the current team, and the game adds nothing to the player's gp and totals
\* of its season and gives the player no record; the stored game holds stats
\* of exactly the numbered rows that are not such rows, and the registry
\* gains exactly the numbers of the numbered rows: a row without a number
\* changes neither.
C13_DNPAndNumberlessRows ==
    /\ [](Ingested =>
            /\ OKeys(LastGame.stats) = PlayingNumbers(last.in.file)
            /\ \A n \in DNPNumbers(last.in.file) \ PlayingNumbers(last.in.file) :
                   /\ ~OHas(LastGame.stats, n)
                   /\ OHas(playersFile, n)
                   /\ CurrentTeam \in Range(OGet(playersFile, n).teams)
                   /\ ~HoldsRecordFor(n, LastGame)
                   /\ \A c \in Categories :
                          LET agg == seasonFiles[LastGame.season][c]
                              played == PlayedIn(SeasonGames(LastGame.season, c), n)
                          IN  n \in DOMAIN agg =>
                                  /\ agg[n]["gp"] = IntV(Cardinality(played))
                                  /\ \A f \in CountingStats :
                                         agg[n][f] = IntV(SumIn(played, n, f, "a"))
                                  /\ \A f \in ShootingStats :
                                         agg[n][f] = PairV(SumIn(played, n, f, "a"),
                                                           SumIn(played, n, f, "b")))
    /\ [][Ingested' =>
              OKeys(playersFile') = OKeys(playersFile)
                  \cup DNPNumbers(last'.in.file) \cup PlayingNumbers(last'.in.file)]_vars

(***************************************************************************)
(* C14: the derived stats of one row                                       *)
(***************************************************************************)
\* tenths is n / d * 100 rounded to one decimal: no tenth is nearer
RoundedPercent(tenths, n, d) == 2 * (tenths * d - n * 1000) \in (0 - d)..d

\* a number equal to n, written with or without a decimal
IsNumber(v, n) == v.k \in {"int", "dec"} /\ v.a = n

\* a null or missing number counts as 0
OrZero(v) == IF v.k = "int" THEN v.a ELSE 0

\* the derived stats d of the raw stats s are as the claim describes
DerivedAsStated(s, d) ==
    /\ \A f \in DerivedFields : d[f].k # "error"
    /\ \A p \in {"fg_pct", "3pt_pct", "ft_pct"} :
           LET x == s[PercentOf[p]]
           IN  IF x.k = "pair" /\ x.b > 0
               THEN d[p].k = "dec" /\ RoundedPercent(d[p].a, x.a, x.b)
               ELSE IsNumber(d[p], 0)
    /\ IF s["fg"].k = "pair" /\ s["3pt"].k = "pair"
       THEN /\ d["2pt"] = PairV(s["fg"].a - s["3pt"].a, s["fg"].b - s["3pt"].b)
            /\ d["2pt_pct"].k \in {"int", "dec"}
       ELSE d["2pt"] = AbsentV /\ d["2pt_pct"] = AbsentV
    /\ d["reb"] = IntV(OrZero(s["oreb"]) + OrZero(s["dreb"]))

\* C14: for every combination of present and null raw fields,
\* calculate_derived_stats returns fg_pct, 3pt_pct and ft_pct equal to
\* made / attempted * 100 rounded to one decimal when the pair is present
\* with attempts, 0 otherwise; 2pt as the pairwise difference of fg and 3pt,
\* and 2pt_pct, exactly when both are present; reb as oreb + dreb, a null
\* one counted as 0; it raises no error and leaves the raw stats as they are.
C14_DerivedStats ==
    /\ [](last.op = "derived" =>
              /\ DerivedAsStated(last.in, last.out)
              /\ DerivedAsStated(last.in, last.pg))
    /\ [][last'.op = "derived" => last'.in = last.in]_vars

\* the derived stats of a row with 2 of 3 field goals, no 3-point cell, free
\* throws without an attempt and a null offensive rebound
C14_Witness ==
    /\ last.op = "derived"
    /\ last.in["fg"] = PairV(2, 3)
    /\ last.in["3pt"] = NoneV
    /\ last.in["ft"] = PairV(0, 0)
    /\ last.in["oreb"] = NoneV
    /\ last.in["dreb"] = IntV(2)
    /\ last.out["fg_pct"] = DecV(667)
    /\ last.out["reb"] = IntV(2)

(***************************************************************************)
(* C15: made and attempted shots in the derived pairs                      *)
(***************************************************************************)
\* the player entries of all games, and a field of one: <<game key, position>>
AllEntries == EntriesOf("all")

FieldOf(e, f) ==
    LET stats == gameFiles[e[1]].stats[e[2]].val
    IN  IF f \in DOMAIN stats THEN stats[f] ELSE AbsentV

\* the fg, 3pt and ft pairs of every game entry have 0 <= made <= attempted
InputPairsInRange ==
    \A e \in AllEntries, f \in {"fg", "3pt", "ft"} :
        FieldOf(e, f).k = "pair" => 0 <= FieldOf(e, f).a /\ FieldOf(e, f).a <= FieldOf(e, f).b

\* in every game entry with both, the missed 3-pointers are no more than the
\* missed field goals
ThreesAmongFieldGoals ==
    \A e \in AllEntries :
        (FieldOf(e, "fg").k = "pair" /\ FieldOf(e, "3pt").k = "pair")
            => FieldOf(e, "3pt").b - FieldOf(e, "3pt").a
                   <= FieldOf(e, "fg").b - FieldOf(e, "fg").a

\* every derived pair has made <= attempted: the 2pt pair of every game
\* entry, the season totals of every season that has a game
DerivedPairsInRange ==
    /\ \A e \in AllEntries :
           FieldOf(e, "2pt").k = "pair" => FieldOf(e, "2pt").a <= FieldOf(e, "2pt").b
    /\ \A season \in SeasonKeys(gameFiles) \cap DOMAIN seasonFiles, c \in Categories :
           \A n \in DOMAIN seasonFiles[season][c], f \in ShootingStats :
               seasonFiles[season][c][n][f].a <= seasonFiles[season][c][n][f].b

\* C15 as stated: whenever the fg, 3pt and ft pairs of every game entry have
\* 0 <= made <= attempted, every derived pair has made <= attempted.
C15_AsStated == InputPairsInRange => DerivedPairsInRange

\* C15, amended: whenever the fg, 3pt and ft pairs of every game entry have
\* 0 <= made <= attempted and the missed 3-pointers of an entry are no more
\* than its missed field goals, every derived pair has made <= attempted:
\* the 2pt pair of every game entry and the totals of fg, 2pt, 3pt and ft in
\* every category of every season that has a game.
C15_DerivedPairsInRange ==
    (InputPairsInRange /\ ThreesAmongFieldGoals) => DerivedPairsInRange

\* two games of one season hold stats of the same player, their pairs in
\* range, and the season's totals were computed over both
C15_Witness ==
    /\ SeasonsUpdated
    /\ InputPairsInRange
    /\ ThreesAmongFieldGoals
    /\ \E season \in DOMAIN seasonFiles, n \in OKeys(playersFile) :
           /\ Cardinality(PlayedIn(SeasonGames(season, "all"), n)) = 2
           /\ n \in DOMAIN seasonFiles[season]["all"]
           /\ seasonFiles[season]["all"][n]["2pt"].b > 0

(***************************************************************************)
(* C16: which side of the title we are                                     *)
(***************************************************************************)
\* a team name holds one of our names, whatever the case of its letters
CarriesOurName(team) == \E v \in OurTeamVariants : Contains(Lower(team), v)

\* the run gave no --opp-score
NoOverride == last.in.opp_score = NoneV

\* C16: after an ingestion of a title '<away> <awayScore> at <home>
\* <homeScore>': if the away team carries our name, also when the home team
\* does too, or if neither does, the game is an away game, the opponent is
\* the home team, our score the away score and, unless overridden, their
\* score the home score; if only the home team carries our name, the game is
\* a home game, the opponent the away team, our score the home score and
\* their score the away score.  The opponent is not the name of our own side
\* (of two names that differ).
C16_SidesOfTheTitle ==
    (last.op = "ingest" /\ last.err = "none") =>
        LET info == LastPage.info
            game == LastGame
        IN  /\ info.ok
            /\ IF CarriesOurName(info.away_team) \/ ~CarriesOurName(info.home_team)
               THEN /\ game.homeAway = "away"
                    /\ game.opponent = info.home_team
                    /\ game.score.us = info.away_score
                    /\ NoOverride => game.score.them = info.home_score
                    /\ info.away_team # info.home_team => game.opponent # info.away_team
               ELSE /\ game.homeAway = "home"
                    /\ game.opponent = info.away_team
                    /\ game.score.us = info.home_score
                    /\ NoOverride => game.score.them = info.away_score
                    /\ info.away_team # info.home_team => game.opponent # info.home_team

\* a box score whose title has our name on both sides was ingested after one
\* where we are home
C16_Witness ==
    /\ last.op = "ingest"
    /\ last.in.file = "Both"
    /\ CarriesOurName(LastPage.info.away_team)
    /\ CarriesOurName(LastPage.info.home_team)
    /\ LastGame.homeAway = "away"
    /\ \E k \in DOMAIN gameFiles : gameFiles[k].homeAway = "home"

(***************************************************************************)
(* C17: the result and the opponent's score                                *)
(***************************************************************************)
\* the scores the title gives our side and the other side of a game
TitleScoreOfUs(info, game) ==
    IF game.homeAway = "home" THEN info.home_score ELSE info.away_score

TitleScoreOfThem(info, game) ==
    IF game.homeAway = "home" THEN info.away_score ELSE info.home_score

\* C17: in every game file and its index entry the result is 'W' exactly
\* when score.us > score.them and 'L' otherwise, a tie included; in the game
\* an ingestion has just stored, score.them is the --opp-score of the run
\* when one was given, 0 included, and the title's score of the other side
\* otherwise, and score.us is the title's score of our side in both cases.
C17_ResultAndOverride ==
    /\ \A k \in DOMAIN gameFiles :
           /\ gameFiles[k].result = (IF gameFiles[k].score.us > gameFiles[k].score.them
                                     THEN "W" ELSE "L")
           /\ k \in DOMAIN gamesIndex
           /\ gamesIndex[k].score = gameFiles[k].score
           /\ gamesIndex[k].result = gameFiles[k].result
    /\ (last.op = "ingest" /\ last.err = "none") =>
           /\ LastGame.score.us = TitleScoreOfUs(LastPage.info, LastGame)
           /\ LastGame.score.them
                  = (IF last.in.opp_score.k = "int" THEN last.in.opp_score.a
                     ELSE TitleScoreOfThem(LastPage.info, LastGame))

\* a run with --opp-score 0 has just turned a tie into a win, and another
\* game is a tie made by --opp-score, stored as a loss
C17_Witness ==
    /\ last.op = "ingest"
    /\ last.in.opp_score = IntV(0)
    /\ LastPage.info.home_score = 30
    /\ LastGame.score = [us |-> 30, them |-> 0]
    /\ LastGame.result = "W"
    /\ \E k \in DOMAIN gameFiles :
           /\ gameFiles[k].score = [us |-> 52, them |-> 52]
           /\ gameFiles[k].result = "L"

(***************************************************************************)
(* C18: the season key and the display name of a forced season             *)
(***************************************************************************)
\* the --season of the last run, stripped, and whether it starts with a year
ForcedSeason == Strip(last.in.force_season)

StartsWithYear(fs) == Len(fs) >= 4 /\ AllDigits(Slice(fs, 1, 4))

\* what follows the year, without the white space around it
AfterYear(fs) == Strip(Slice(fs, 5, Len(fs)))

\* the year followed by the title-cased suffix
YearAndSuffix(fs) ==
    IF AfterYear(fs) = <<>> THEN Slice(fs, 1, 4)
    ELSE Slice(fs, 1, 4) \o <<" ">> \o Title(AfterYear(fs))

\* C18: an ingestion without --season stores the game under the year of its
\* date and leaves seasons_meta as it was; with a --season that starts with
\* a 4-digit year the season key is that year, whatever the date, and the
\* display name of that key is the year followed by the title-cased suffix;
\* with a --season without a leading year the season key is the year of the
\* date and the display name of that key is the whole string, title-cased.
C18_SeasonResolution ==
    /\ [](Ingested =>
            IF last.in.force_season = <<>>
            THEN LastGame.season = Slice(LastGame.date, 1, 4)
            ELSE IF StartsWithYear(ForcedSeason)
            THEN /\ LastGame.season = Slice(ForcedSeason, 1, 4)
                 /\ LastGame.season \in DOMAIN seasonsMeta
                 /\ seasonsMeta[LastGame.season].display_name = YearAndSuffix(ForcedSeason)
            ELSE /\ LastGame.season = Slice(LastGame.date, 1, 4)
                 /\ LastGame.season \in DOMAIN seasonsMeta
                 /\ seasonsMeta[LastGame.season].display_name = Title(ForcedSeason))
    /\ [][(Ingested' /\ last'.in.force_season = <<>>) => seasonsMeta' = seasonsMeta]_vars

(***************************************************************************)
(* C19: what a remap rewrites and what it leaves                           *)
(***************************************************************************)
\* the number a mapping gives a number: itself when the mapping lacks it
NewNumber(mapping, n) == IF n \in DOMAIN mapping THEN mapping[n] ELSE n

\* the numbers present: the keys of the registry and of the stats of the games
NumbersPresent ==
    OKeys(playersFile) \cup UNION {OKeys(gameFiles[k].stats) : k \in DOMAIN gameFiles}

\* the mapping sends no two numbers present to the same number
OneToOne(mapping) ==
    \A m, n \in NumbersPresent : NewNumber(mapping, m) = NewNumber(mapping, n) => m = n

\* the step rewrites every key of the registry and of the stats of every
\* game by the mapping and leaves the rest
RewritesEveryKey(mapping) ==
    /\ OKeys(playersFile') = {NewNumber(mapping, n) : n \in OKeys(playersFile)}
    /\ \A n \in OKeys(playersFile) :
           OGet(playersFile', NewNumber(mapping, n))
               = [OGet(playersFile, n) EXCEPT !.number = NewNumber(mapping, n)]
    /\ DOMAIN gameFiles' = DOMAIN gameFiles
    /\ \A k \in DOMAIN gameFiles :
           /\ OKeys(gameFiles'[k].stats)
                  = {NewNumber(mapping, n) : n \in OKeys(gameFiles[k].stats)}
           /\ \A n \in OKeys(gameFiles[k].stats) :
                  OGet(gameFiles'[k].stats, NewNumber(mapping, n))
                      = OGet(gameFiles[k].stats, n)
           /\ [gameFiles'[k] EXCEPT !.stats = <<>>] = [gameFiles[k] EXCEPT !.stats = <<>>]

\* C19 as stated: a remap moves every registry record and every stats entry
\* of every game from its key k to mapping[k], to k itself when the mapping
\* lacks k, with the stats values and the other fields of the games
\* unchanged.
C19_AsStated ==
    [][last'.op = "remap" => RewritesEveryKey(last'.mapping)]_vars

\* C19, amended: a remap by a mapping that sends no two numbers present to
\* the same number moves every registry record and every stats entry of
\* every game from its key k to mapping[k], to k itself when the mapping
\* lacks k, with the stats values and the other fields of the games
\* unchanged; the same mapping is applied to the registry and to every game.
C19_RemapRewritesKeys ==
    [][(last'.op = "remap" /\ OneToOne(last'.mapping))
           => RewritesEveryKey(last'.mapping)]_vars

\* numbers 7 and 3 were swapped in two games, one of them with stats of both
C19_Witness ==
    /\ last.op = "remap"
    /\ DOMAIN last.mapping = {<<"7">>, <<"3">>}
    /\ Cardinality(DOMAIN gameFiles) = 2
    /\ \E k \in DOMAIN gameFiles : OKeys(gameFiles[k].stats) = {<<"7">>, <<"3">>}
    /\ OKeys(playersFile) = {<<"7">>, <<"3">>}
    /\ \E i \in DOMAIN playersFile :
           /\ playersFile[i].key = <<"7">>
           /\ playersFile[i].val.name = <<"A", "l", "a", "n">>

(***************************************************************************)
(* C20: the game index and the games                                       *)
(***************************************************************************)
\* the fields an index entry shares with its game
Summary(r) ==
    [date |-> r.date, season |-> r.season, opponent |-> r.opponent, score |-> r.score,
     result |-> r.result, isPlayoff |-> r.isPlayoff]

\* C20: after any number of successful ingestions into an empty store the
\* index has an entry for a key exactly when a game is persisted under that
\* key, and the date, season, opponent, score, result and isPlayoff of the
\* entry are those of the game.
C20_IndexInSync ==
    /\ DOMAIN gamesIndex = DOMAIN gameFiles
    /\ \A key \in DOMAIN gameFiles : Summary(gamesIndex[key]) = Summary(gameFiles[key])

\* two games are persisted, and the last ingestion replaced a game of the
\* regular season by the same game as a playoff game
C20_Witness ==
    /\ Ingested
    /\ ~last.created
    /\ last.in.is_playoff
    /\ Cardinality(DOMAIN gameFiles) = 2
    /\ \E key \in DOMAIN gamesIndex : gamesIndex[key].isPlayoff
    /\ \E key \in DOMAIN gamesIndex : ~gamesIndex[key].isPlayoff

(***************************************************************************)
(* C21: the id of a name                                                   *)
(***************************************************************************)
RECURSIVE TrimLeft(_)
TrimLeft(s) == IF s # <<>> /\ IsSpace(Head(s)) THEN TrimLeft(Tail(s)) ELSE s

RECURSIVE TrimRight(_)
TrimRight(s) ==
    IF s # <<>> /\ IsSpace(s[Len(s)]) THEN TrimRight(SubSeq(s, 1, Len(s) - 1)) ELSE s

\* the name with its periods removed, trimmed and lowercased
CleanName(name) == Lower(TrimRight(TrimLeft(SelectSeq(name, LAMBDA c : c # "."))))

\* s with every run of whitespace replaced by one hyphen
RECURSIVE HyphenateRuns(_)
HyphenateRuns(s) ==
    IF s = <<>> THEN <<>>
    ELSE IF IsSpace(Head(s)) THEN <<"-">> \o HyphenateRuns(TrimLeft(s))
    ELSE <<Head(s)>> \o HyphenateRuns(Tail(s))

\* s with every space replaced by a hyphen
RECURSIVE HyphenateSpaces(_)
HyphenateSpaces(s) ==
    IF s = <<>> THEN <<>>
    ELSE <<IF Head(s) = " " THEN "-" ELSE Head(s)>> \o HyphenateSpaces(Tail(s))

\* C21 as stated: the id of a name is the name with periods removed,
\* trimmed, lowercased, and every interior run of whitespace replaced by a
\* single hyphen.
C21_AsStated == last.op = "id" => last.out = HyphenateRuns(CleanName(last.in))

\* C21, amended: the id of a name is the name with periods removed, leading
\* and trailing whitespace trimmed, lowercased, and every interior space
\* replaced by a hyphen, a hyphen for each space of a run, for every name.
C21_IdOfName == last.op = "id" => last.out = HyphenateSpaces(CleanName(last.in))

\* a name with a capital, a period and a space inside
C21_Witness ==
    /\ last.op = "id"
    /\ last.in = <<"J", ".", " ", "s">>
    /\ last.out = <<"j", "-", "s">>

(***************************************************************************)
(* C22: the averages and percentages of a season                           *)
(***************************************************************************)
\* a number as a count of tenths
Tenths(v) == IF v.k = "dec" THEN v.a ELSE 10 * v.a

\* v is total / gp rounded to one decimal: no tenth is nearer
RoundedAverage(v, total, gp) ==
    /\ v.k \in {"int", "dec"}
    /\ 2 * (Tenths(v) * gp - total * 10) \in (0 - gp)..gp

\* the aggregates of the season files: [season, category, number]
Aggregates ==
    UNION {UNION {{<<key, c, n>> : n \in DOMAIN seasonFiles[key][c]} : c \in Categories} :
              key \in DOMAIN seasonFiles}

AggregateOf(x) == seasonFiles[x[1]][x[2]][x[3]]

\* the averages and percentages of an aggregate are as the claim describes
AveragesAsStated(agg) ==
    IF agg["gp"].a > 0
    THEN /\ \A f \in DOMAIN AverageOf :
                RoundedAverage(agg[f], agg[AverageOf[f]].a, agg["gp"].a)
         /\ \A f \in DOMAIN PerGameOf :
                RoundedAverage(agg[f], agg[PerGameOf[f][1]][PerGameOf[f][2]], agg["gp"].a)
         /\ \A f \in DOMAIN PercentOf :
                LET pair == agg[PercentOf[f]]
                IN  IF pair.b > 0
                    THEN agg[f].k = "dec" /\ RoundedPercent(agg[f].a, pair.a, pair.b)
                    ELSE IsNumber(agg[f], 0)
    ELSE \A f \in DOMAIN AverageOf \cup DOMAIN PerGameOf \cup DOMAIN PercentOf :
             agg[f] = AbsentV

PlayersOfSeasons ==
    UNION {{<<SeasonKeyOf(gameFiles[k]), n>> : n \in OKeys(gameFiles[k].stats)} :
              k \in DOMAIN gameFiles}

\* the aggregate all is the sum of the aggregates regular and playoff
IsSumOf(all, regular, playoff) ==
    /\ \A f \in {"gp"} \cup CountingStats :
           /\ all[f].k = "int"
           /\ all[f].a = regular[f].a + playoff[f].a
    /\ \A f \in ShootingStats :
           /\ all[f].k = "pair"
           /\ all[f].a = regular[f].a + playoff[f].a
           /\ all[f].b = regular[f].b + playoff[f].b

\* C23: a player with a stats entry in a game of a season has an entry in
\* each of the three categories of the season's aggregate; gp, every
\* counting total and both components of every shooting pair of all are the
\* sums of those of regular and playoff, and all.gp is at least 1.
C23_AllIsRegularPlusPlayoff ==
    \A x \in PlayersOfSeasons :
        /\ x[1] \in DOMAIN seasonFiles
        /\ \A c \in Categories : x[2] \in DOMAIN seasonFiles[x[1]][c]
        /\ IsSumOf(seasonFiles[x[1]]["all"][x[2]], seasonFiles[x[1]]["regular"][x[2]],
                   seasonFiles[x[1]]["playoff"][x[2]])
        /\ seasonFiles[x[1]]["all"][x[2]]["gp"].a >= 1

\* a season with a game of each type: a player of both, and a player of the
\* playoff game only, whose regular entry is zeroed
C23_Witness ==
    \E key \in DOMAIN seasonFiles :
        /\ \E n \in DOMAIN seasonFiles[key]["all"] :
               /\ <<key, n>> \in PlayersOfSeasons
               /\ seasonFiles[key]["regular"][n]["gp"].a = 1
               /\ seasonFiles[key]["playoff"][n]["gp"].a = 1
               /\ seasonFiles[key]["all"][n]["pts"].a
                      > seasonFiles[key]["regular"][n]["pts"].a
        /\ \E n \in DOMAIN seasonFiles[key]["all"] :
               /\ <<key, n>> \in PlayersOfSeasons
               /\ seasonFiles[key]["regular"][n]["gp"].a = 0
               /\ seasonFiles[key]["regular"][n]["fg"] = PairV(0, 0)
               /\ seasonFiles[key]["playoff"][n]["gp"].a = 1

(***************************************************************************)
(* C24: the number field of a registry record                              *)
(***************************************************************************)
\* C24: after any ingestions and remaps into an empty store the number
\* field of every record of the registry is the key the record is stored
\* under.
C24_NumberIsKey ==
    \A i \in DOMAIN playersFile : playersFile[i].val.number = playersFile[i].key

\* the last run was a remap that moved a record to a number of two digits
C24_Witness ==
    /\ last.op = "remap"
    /\ <<"7">> \in DOMAIN last.mapping
    /\ \E i \in DOMAIN playersFile :
           /\ playersFile[i].key = <<"1", "4">>
           /\ playersFile[i].val.number = <<"1", "4">>
           /\ playersFile[i].val.name = <<"J", ".", " ", "S", "m", "i", "t", "h">>

(***************************************************************************)
(* C25: when a remap loses data                                            *)
(***************************************************************************)
\* the step keeps every record of the registry and every stats entry of
\* every game: as many as before, each found under its new number
LosesNothing(mapping) ==
    /\ Len(playersFile') = Len(playersFile)
    /\ \A n \in OKeys(playersFile) :
           /\ OHas(playersFile', NewNumber(mapping, n))
           /\ [OGet(playersFile', NewNumber(mapping, n)) EXCEPT !.number = n]
                  = OGet(playersFile, n)
    /\ \A k \in DOMAIN gameFiles :
           /\ Len(gameFiles'[k].stats) = Len(gameFiles[k].stats)
           /\ \A n \in OKeys(gameFiles[k].stats) :
                  /\ OHas(gameFiles'[k].stats, NewNumber(mapping, n))
                  /\ OGet(gameFiles'[k].stats, NewNumber(mapping, n))
                         = OGet(gameFiles[k].stats, n)

\* of two records of the registry sent to the same number one is gone: the
\* number holds one record, that of one of the two
OverwritesOne(mapping) ==
    \A m, n \in OKeys(playersFile) :
        (m # n /\ NewNumber(mapping, m) = NewNumber(mapping, n))
            => /\ Len(playersFile') < Len(playersFile)
               /\ [OGet(playersFile', NewNumber(mapping, n)) EXCEPT !.number = <<>>]
                      \in {[OGet(playersFile, m) EXCEPT !.number = <<>>],
                           [OGet(playersFile, n) EXCEPT !.number = <<>>]}

\* of two stats entries of a game sent to the same number one is gone
OverwritesOneEntry(mapping) ==
    \A k \in DOMAIN gameFiles :
        \A m, n \in OKeys(gameFiles[k].stats) :
            (m # n /\ NewNumber(mapping, m) = NewNumber(mapping, n))
                => /\ Len(gameFiles'[k].stats) < Len(gameFiles[k].stats)
                   /\ OGet(gameFiles'[k].stats, NewNumber(mapping, n))
                          \in {OGet(gameFiles[k].stats, m), OGet(gameFiles[k].stats, n)}

\* C25: a remap keeps every record and every stats entry, each unchanged
\* under its new number, exactly when the mapping, extended by the identity,
\* sends no two numbers present to the same number; of two records or two
\* stats entries sent to the same number, one is overwritten by the other.
C25_LossExactlyOnCollision ==
    [][last'.op = "remap"
           => /\ OneToOne(last'.mapping) <=> LosesNothing(last'.mapping)
              /\ OverwritesOne(last'.mapping)
              /\ OverwritesOneEntry(last'.mapping)]_vars

\* number 7 was sent onto number 3: the game against the Hawks, which had
\* stats of both, holds one entry, and the registry one record
C25_Witness ==
    /\ last.op = "remap"
    /\ last.mapping = (<<"7">> :> <<"3">>)
    /\ OKeys(playersFile) = {<<"3">>}
    /\ \E k \in DOMAIN gameFiles :
           /\ gameFiles[k].opponent = <<"H", "a", "w", "k", "s">>
           /\ OKeys(gameFiles[k].stats) = {<<"3">>}

(***************************************************************************)
(* C26: the players the games and the records name                         *)
(***************************************************************************)
\* every number with a stats entry in a game is a key of the registry
StatsKeysRegistered ==
    \A k \in DOMAIN gameFiles : OKeys(gameFiles[k].stats) \subseteq OKeys(playersFile)

\* the last run recomputed the records
Recomputed == last.op \in {"ingest", "update_records"} /\ last.err = "none"

\* the entries of the records that name a player
NamingEntries ==
    UNION {{recordsFile[c][st] : st \in DOMAIN recordsFile[c]} : c \in DOMAIN recordsFile}
        \ {e \in UNION {{recordsFile[c][st] : st \in DOMAIN recordsFile[c]} :
                           c \in DOMAIN recordsFile} : e.player = Null}

\* C26: after any successful ingestions and remaps into an empty store
\* every number that is a stats key of a game is a key of the registry, and
\* once the records are recomputed every entry that names a player carries
\* the name the registry holds for its number, never '#<number>'.
C26_RecordsNameRegisteredPlayers ==
    /\ StatsKeysRegistered
    /\ Recomputed =>
           \A e \in NamingEntries :
               /\ OHas(playersFile, e.player_number)
               /\ e.player = OGet(playersFile, e.player_number).name
               /\ Head(e.player) # "#"

\* number 7 was renamed to 14 and the records recomputed: a record is held
\* by number 14 under the name of the registry
C26_Witness ==
    /\ last.op = "update_records"
    /\ <<"1", "4">> \in OKeys(playersFile)
    /\ \E e \in NamingEntries :
           /\ e.player_number = <<"1", "4">>
           /\ e.player = <<"J", ".", " ", "S", "m", "i", "t", "h">>

====
